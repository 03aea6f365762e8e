---------------------------- MODULE ScalingProofs ----------------------------
(***************************************************************************)
(* The safety of scaling, proved for every number of nodes, goroutines and *)
(* jobs, as long as the Linode API answers within a tick.  What each       *)
(* theorem needs of the faults beyond that is its hypothesis.              *)
(*                                                                         *)
(* The theorems rest on one another: whose turn it is (InTurn) tells which *)
(* scale operations exist at a time (OneScaleOperation), what a listing    *)
(* is worth when it is used (Cleared), which instances exist (Existing)    *)
(* and which of them the table covers (Covered).                           *)
(***************************************************************************)
EXTENDS OrchestratorProofs, FiniteSetTheorems

USE DEF table, timers, procs, monitor, world

\* An API call is over before the monitor loop wakes up again.
Prompt == "slowCalls" \notin Faults

ScalesUp   == {"up", "create", "created", "recordUp", "undo"}
ScalesDown == {"down", "drain", "mark", "destroy", "destroyed", "recordDown"}

\* The steps of an operation, from the go statement to recordScaleEvent, or to
\* the end of an operation that fails.
Busy == ScalesUp \cup ScalesDown

-----------------------------------------------------------------------------
(* Whose turn it is *)

\* A step of a goroutine concerns nobody else, and makes no operation of what
\* is none.
LEMMA GoroutineFrame ==
  ASSUME TypeOK, NEW p \in Procs, Goroutine(p)
  PROVE  /\ UNCHANGED <<upAge, downAge, mpc, boot, seen, todo, changed, cur, pending, msnap, tick, work>>
         /\ \A q \in Procs \ {p} : pc'[q] = pc[q] /\ arg'[q] = arg[q]
         /\ pc'[p] \in ScalesUp => pc[p] \in ScalesUp
         /\ pc'[p] \in ScalesDown => pc[p] \in ScalesDown
         /\ sinceEvent' # sinceEvent => pc[p] \in {"recordUp", "recordDown"}
<1> USE DEF Goto, Exit, TypeOK, ScalesUp, ScalesDown
<1>1. /\ UNCHANGED <<upAge, downAge, mpc, boot, seen, todo, changed, cur, pending, msnap, tick, work>>
      /\ sinceEvent' # sinceEvent => pc[p] \in {"recordUp", "recordDown"}
  BY DEF Goroutine, ScaleUp, CreateGPUNode, CreateFails, TrackNode,
     DestroyUntracked, RecordScaleUp, WaitForRunning, WaitTimesOut,
     MarkReady, PurgeNode, DestroyPurged, ForgetPurged, ScaleDown, DrainNode,
     MarkDestroying, ScaleDownMove, DestroyNode, RemoveDestroyed,
     RecordScaleDown, ReadTargets, WriteTargets
<1>2. /\ pc' = [pc EXCEPT ![p] = pc'[p]]
      /\ arg' = [arg EXCEPT ![p] = arg'[p]]
  BY DEF Goroutine, ScaleUp, CreateGPUNode, CreateFails, TrackNode,
     DestroyUntracked, DestroyCall, RecordScaleUp, WaitForRunning, WaitTimesOut,
     MarkReady, PurgeNode, DestroyPurged, ForgetPurged, ScaleDown, DrainNode,
     MarkDestroying, ScaleDownMove, DestroyNode, RemoveDestroyed,
     RecordScaleDown, ReadTargets, WriteTargets
<1>3. /\ pc'[p] \in ScalesUp => pc[p] \in ScalesUp
      /\ pc'[p] \in ScalesDown => pc[p] \in ScalesDown
  BY DEF Goroutine, ScaleUp, CreateGPUNode, CreateFails, TrackNode,
     DestroyUntracked, DestroyCall, RecordScaleUp, WaitForRunning, WaitTimesOut,
     MarkReady, PurgeNode, DestroyPurged, ForgetPurged, ScaleDown, DrainNode,
     MarkDestroying, ScaleDownMove, DestroyNode, RemoveDestroyed,
     RecordScaleDown, ReadTargets, WriteTargets
<1>4. QED
  BY <1>1, <1>2, <1>3

\* The monitor starts goroutines in three places, and concerns none that runs.
LEMMA MonitorFrame ==
  ASSUME TypeOK, Monitor
  PROVE  \/ UNCHANGED <<pc, arg>>
         \/ /\ ColdStart \/ ScaleOut
            /\ Gate /\ Spawn("up", NoNode) /\ UNCHANGED <<table, sinceEvent, world>>
         \/ ScaleIn /\ Gate /\ Spawn("down", cur) /\ UNCHANGED <<table, sinceEvent, world>>
BY DEF Monitor, StartRound, ListManagedNodes, ListFails, ListArrives, LookUp,
   Adopt, Observe, Compare, Prune, Reconciled, MonitorReadsTargets,
   MonitorWritesTargets, GetQueueStats, EvaluateScaleUp, ColdStart, ScaleOut,
   EvaluateScaleDown, ScaleIn

\* One operation at a time, in the monitor's sleep: an operation starts at the
\* end of a round, and the next one waits for it.  What is left of the round
\* when a ScaleUp starts is the evaluation of a queue that is not empty.
InTurn ==
  /\ mpc # "sleep" => tick = FALSE
  /\ mpc \in {"coldStart", "scaleOut"} => pending > 0
  /\ \A p \in Procs : pc[p] \in Busy =>
       /\ \A q \in Procs \ {p} : pc[q] \notin Busy
       /\ \/ mpc = "sleep" /\ tick = FALSE
          \/ mpc = "down" /\ pending > 0 /\ pc[p] \in ScalesUp

\* While an operation is under way the monitor can only end its round.
LEMMA BusyMonitor ==
  ASSUME TypeOK, InTurn, Monitor, NEW p \in Procs, pc[p] \in Busy
  PROVE  /\ mpc = "down" /\ mpc' = "sleep"
         /\ UNCHANGED <<table, sinceEvent, upAge, procs, boot, seen, todo, changed, msnap, world>>
<1>1. (mpc = "sleep" /\ tick = FALSE) \/ (mpc = "down" /\ pending > 0)
  BY DEF InTurn
<1>2. StartRound \/ (mpc # "sleep" /\ (mpc = "down" => EvaluateScaleDown))
  BY DEF Monitor, ListManagedNodes, ListFails, ListArrives, LookUp,
     Adopt, Observe, Compare, Prune, Reconciled, MonitorReadsTargets,
     MonitorWritesTargets, GetQueueStats, EvaluateScaleUp, ColdStart, ScaleOut,
     EvaluateScaleDown, ScaleIn
<1>3. ~StartRound
  BY <1>1 DEF StartRound
<1>4. EvaluateScaleDown /\ pending > 0
  BY <1>1, <1>2, <1>3
<1>5. QED
  BY <1>4 DEF EvaluateScaleDown, EndRound

\* A round that begins holds no tick, one that evaluates the queue to scale up
\* has found jobs.
LEMMA MonitorRound ==
  ASSUME TypeOK, InTurn, Monitor
  PROVE  /\ mpc' # "sleep" => tick' = FALSE
         /\ mpc' \in {"coldStart", "scaleOut"} => pending' > 0
<1>1. CASE EvaluateScaleUp
  <2>1. mpc = "up" /\ UNCHANGED <<tick, pending>>
    BY <1>1 DEF EvaluateScaleUp
  <2>2. mpc' # "down" => pending > 0 \/ pending > ScaleUpThreshold
    BY <1>1, Zenon DEF EvaluateScaleUp
  <2>3. pending \in Nat /\ ScaleUpThreshold \in Nat
    BY Constants DEF TypeOK
  <2>4. mpc' # "down" => pending > 0
    BY <2>2, <2>3
  <2>5. QED
    BY <2>1, <2>4 DEF InTurn
<1>2. CASE ~EvaluateScaleUp
  BY <1>2 DEF InTurn, Monitor, StartRound, ListManagedNodes, ListFails, ListArrives, LookUp,
     Adopt, Observe, Compare, Prune, Reconciled, MonitorReadsTargets,
     MonitorWritesTargets, GetQueueStats, ColdStart, ScaleOut,
     EvaluateScaleDown, ScaleIn, EndRound
<1>3. QED
  BY <1>1, <1>2

\* No step breaks the turns.
LEMMA TurnsKept == ASSUME Prompt PROVE TypeOK /\ InTurn /\ [Next]_vars => InTurn'
<1> SUFFICES ASSUME TypeOK, InTurn, [Next]_vars PROVE InTurn'
  OBVIOUS
<1>1. ASSUME NEW p \in Procs, Goroutine(p) PROVE InTurn'
  <2>1. \A q \in Procs : /\ pc'[q] \in ScalesUp => pc[q] \in ScalesUp
                         /\ pc'[q] \in ScalesDown => pc[q] \in ScalesDown
    BY <1>1, GoroutineFrame
  <2>2. UNCHANGED <<mpc, tick, pending>>
    BY <1>1, GoroutineFrame
  <2>3. \A q \in Procs : pc'[q] \in Busy => pc[q] \in Busy
    BY <2>1 DEF Busy
  <2>4. ASSUME NEW q \in Procs, pc'[q] \in Busy
        PROVE  /\ \A r \in Procs \ {q} : pc'[r] \notin Busy
               /\ \/ mpc' = "sleep" /\ tick' = FALSE
                  \/ mpc' = "down" /\ pending' > 0 /\ pc'[q] \in ScalesUp
    <3>1. pc[q] \in Busy
      BY <2>3, <2>4
    <3>2. /\ \A r \in Procs \ {q} : pc[r] \notin Busy
          /\ \/ mpc = "sleep" /\ tick = FALSE
             \/ mpc = "down" /\ pending > 0 /\ pc[q] \in ScalesUp
      BY <3>1 DEF InTurn
    <3>3. pc[q] \in ScalesUp => pc'[q] \in ScalesUp
      BY <2>1, <2>4 DEF Busy, ScalesUp, ScalesDown
    <3>4. QED
      BY <2>2, <2>3, <3>2, <3>3
  <2>5. QED
    BY <2>2, <2>4 DEF InTurn
<1>2. CASE Monitor
  <2>1. CASE \E p \in Procs : pc[p] \in Busy
    <3>1. mpc = "down" /\ mpc' = "sleep" /\ UNCHANGED <<pc, tick>>
      BY <1>2, <2>1, BusyMonitor
    <3>2. QED
      BY <1>2, <3>1, MonitorRound DEF InTurn
  <2>2. CASE \A p \in Procs : pc[p] \notin Busy
    <3>1. ASSUME NEW entry, NEW x, Spawn(entry, x), entry \in Busy,
                 \/ mpc' = "sleep" /\ tick' = FALSE
                 \/ mpc' = "down" /\ pending' > 0 /\ entry \in ScalesUp
          PROVE  InTurn'
      <4>1. PICK p \in Procs : pc' = [pc EXCEPT ![p] = entry]
        BY <3>1 DEF Spawn, Goto
      <4>2. \A q \in Procs : pc'[q] = IF q = p THEN entry ELSE pc[q]
        BY <4>1 DEF TypeOK
      <4>3. QED
        BY <1>2, <2>2, <3>1, <4>2, MonitorRound DEF InTurn
    <3>2. CASE UNCHANGED pc
      BY <1>2, <2>2, <3>2, MonitorRound DEF InTurn
    <3>3. CASE (ColdStart \/ ScaleOut) /\ Spawn("up", NoNode)
      <4>1. mpc' = "down" /\ pending' > 0
        BY <3>3 DEF ColdStart, ScaleOut, InTurn
      <4>2. QED
        BY <3>1, <3>3, <4>1 DEF Busy, ScalesUp
    <3>4. CASE ScaleIn /\ Spawn("down", cur)
      <4>1. mpc' = "sleep" /\ tick' = FALSE
        BY <3>4 DEF ScaleIn, EndRound, InTurn
      <4>2. QED
        BY <3>1, <3>4, <4>1 DEF Busy, ScalesDown
    <3>5. QED
      BY <1>2, <3>2, <3>3, <3>4, MonitorFrame
  <2>3. QED
    BY <2>1, <2>2
<1>3. CASE TimePasses
  <2>1. mpc = "sleep" /\ \A p \in Procs : pc[p] \in {"idle", "wait"}
    BY <1>3 DEF TimePasses, MonitorPatient, Patient, Prompt
  <2>2. QED
    BY <1>3, <2>1 DEF TimePasses, InTurn, Busy, ScalesUp, ScalesDown
<1>4. ASSUME NEW id \in NodeIds, Boot(id) \/ Vanish(id) PROVE InTurn'
  BY <1>4 DEF Boot, Vanish, InTurn
<1>5. CASE Crash
  BY <1>5 DEF Crash, InTurn, Busy, ScalesUp, ScalesDown
<1>6. CASE UNCHANGED vars
  BY <1>6 DEF vars, InTurn
<1>7. QED
  BY <1>1, <1>2, <1>3, <1>4, <1>5, <1>6 DEF Next

\* The controller keeps the turns.
LEMMA TurnsTaken == ASSUME Prompt PROVE Spec => []InTurn
<1>1. Init => InTurn
  BY DEF Init, InTurn, Busy, ScalesUp, ScalesDown
<1>2. QED
  BY <1>1, TurnsKept, TypeCorrect, PTL DEF Spec

-----------------------------------------------------------------------------
(* One operation at a time, after the cooldown *)

\* What a goroutine outside of an operation does to the table and the cloud: a
\* transition that TransitionNode allows, the end of a node given up, the
\* destruction of its instance.
LEMMA AfterOperation ==
  ASSUME TypeOK, NEW p \in Procs, Goroutine(p), pc[p] \notin Busy
  PROVE  /\ \/ nodes' = nodes
            \/ /\ pc[p] = "booted" /\ arg[p] \in NodeIds
               /\ CanMove(nodes, arg[p], "ready") /\ Move(arg[p], "ready")
            \/ /\ pc[p] = "purge" /\ arg[p] \in NodeIds
               /\ CanMove(nodes, arg[p], "destroying") /\ Move(arg[p], "destroying")
            \/ /\ pc[p] = "forget" /\ arg[p] \in NodeIds
               /\ nodes' = [nodes EXCEPT ![arg[p]] = Absent]
         /\ \/ cloud' = cloud
            \/ /\ pc[p] = "purged" /\ arg[p] \in NodeIds /\ cloud[arg[p]] # "none"
               /\ cloud' = [cloud EXCEPT ![arg[p]] = "none"]
<1> USE DEF TypeOK, NodePCs
<1>1. CASE MarkReady(p)
  <2>1. nodes' = nodes \/ (CanMove(nodes, arg[p], "ready") /\ Move(arg[p], "ready"))
    BY <1>1 DEF MarkReady
  <2>2. pc[p] = "booted" /\ arg[p] \in NodeIds /\ cloud' = cloud
    BY <1>1 DEF MarkReady
  <2>3. QED
    BY <2>1, <2>2
<1>2. CASE PurgeNode(p)
  BY <1>2 DEF PurgeNode
<1>3. CASE DestroyPurged(p)
  BY <1>3 DEF DestroyPurged, DestroyCall
<1>4. CASE ForgetPurged(p)
  BY <1>4 DEF ForgetPurged, Remove
<1>5. CASE nodes' = nodes /\ cloud' = cloud
  BY <1>5
<1>6. QED
  BY <1>1, <1>2, <1>3, <1>4, <1>5 DEF Busy, ScalesUp, ScalesDown,
     Goroutine, ScaleUp, CreateGPUNode, CreateFails, TrackNode,
     DestroyUntracked, RecordScaleUp, WaitForRunning, WaitTimesOut,
     ScaleDown, DrainNode, MarkDestroying, ScaleDownMove, DestroyNode,
     RemoveDestroyed, RecordScaleDown, ReadTargets, WriteTargets

\* Nothing but the node of an operation is in a transitional state, and a
\* ScaleUp that has created nothing yet has no node.
Alone ==
  \A p \in Procs :
    /\ pc[p] \in {"up", "create"} => arg[p] = NoNode
    /\ pc[p] \in ScaleOps => \A id \in Tracked(nodes) \ {arg[p]} : nodes[id] = "ready"

\* A step of a goroutine leaves the operations alone.
LEMMA GoroutineKeepsAlone ==
  ASSUME TypeOK, InTurn, Alone, NEW p \in Procs, Goroutine(p) PROVE Alone'
<1> USE DEF TypeOK, Tables, Goto, Exit, Move, Remove, Absent
<1> SUFFICES ASSUME NEW q \in Procs
             PROVE  /\ pc'[q] \in {"up", "create"} => arg'[q] = NoNode
                    /\ pc'[q] \in ScaleOps =>
                         \A id \in Tracked(nodes)' \ {arg'[q]} : nodes'[id] = "ready"
  BY DEF Alone
<1>1. CASE q # p
  <2>1. pc'[q] = pc[q] /\ arg'[q] = arg[q]
    BY <1>1, GoroutineFrame
  <2>2. CASE pc[q] \in ScaleOps
    <3>1. pc[p] \notin Busy
      BY <1>1, <2>2 DEF InTurn, Busy, ScaleOps, BeforeRecord, ScalesUp, ScalesDown
    <3>2. \A id \in Tracked(nodes) \ {arg[q]} : nodes[id] = "ready"
      BY <2>2 DEF Alone
    <3>3. ASSUME NEW id \in NodeIds \ {arg[q]}, nodes'[id] # Absent PROVE nodes'[id] = "ready"
      <4>1. nodes[id] \in {"ready", Absent}
        BY <3>2 DEF Tracked
      <4>2. CanMove(nodes, id, "destroying") => FALSE
        BY <4>1 DEF CanMove, validTransitions
      <4>3. CanMove(nodes, id, "ready") => nodes[id] # Absent
        BY DEF CanMove
      <4>4. QED
        BY <3>1, <3>3, <4>1, <4>2, <4>3, AfterOperation
    <3>4. QED
      BY <2>1, <3>3 DEF Tracked, Alone
  <2>3. CASE pc[q] \notin ScaleOps
    BY <2>1, <2>3 DEF Alone
  <2>4. QED
    BY <2>2, <2>3
<1>2. CASE q = p
  <2>1. CASE ScaleUp(p)
    BY <1>2, <2>1 DEF ScaleUp, Alone, ScaleOps, BeforeRecord
  <2>2. CASE CreateGPUNode(p)
    <3>1. \A id \in Tracked(nodes) : nodes[id] = "ready"
      <4>1. pc[p] = "create"
        BY <2>2 DEF CreateGPUNode
      <4>2. arg[p] = NoNode /\ \A id \in Tracked(nodes) \ {arg[p]} : nodes[id] = "ready"
        BY <4>1 DEF Alone, ScaleOps, BeforeRecord
      <4>3. QED
        BY <4>2, Constants DEF Tracked
    <3>2. QED
      BY <1>2, <2>2, <3>1 DEF CreateGPUNode, Tracked
  <2>3. CASE TrackNode(p)
    BY <1>2, <2>3 DEF TrackNode, Alone, ScaleOps, BeforeRecord, Tracked
  <2>4. CASE ScaleDown(p)
    BY <1>2, <2>4 DEF ScaleDown, Alone, ScaleOps, BeforeRecord, Tracked
  <2>5. CASE DrainNode(p)
    BY <1>2, <2>5 DEF DrainNode, ScaleDownMove, Alone, ScaleOps, BeforeRecord, Tracked
  <2>6. CASE MarkDestroying(p)
    BY <1>2, <2>6 DEF MarkDestroying, ScaleDownMove, Alone, ScaleOps, BeforeRecord, Tracked
  <2>7. CASE DestroyNode(p)
    BY <1>2, <2>7 DEF DestroyNode, DestroyCall, Alone, ScaleOps, BeforeRecord, Tracked
  <2>8. CASE RemoveDestroyed(p)
    BY <1>2, <2>8 DEF RemoveDestroyed, Alone, ScaleOps, BeforeRecord, Tracked
  <2>9. CASE pc'[p] \notin ScaleOps
    BY <1>2, <2>9 DEF ScaleOps, BeforeRecord
  <2>10. QED
    BY <2>1, <2>2, <2>3, <2>4, <2>5, <2>6, <2>7, <2>8, <2>9
       DEF Goroutine, CreateFails, DestroyUntracked, DestroyCall, RecordScaleUp,
       WaitForRunning, WaitTimesOut, MarkReady, PurgeNode, DestroyPurged, ForgetPurged,
       RecordScaleDown, ReadTargets, WriteTargets, ScaleOps, BeforeRecord
<1>3. QED
  BY <1>1, <1>2

\* Nor does a step of the monitor, whose gate lets an operation begin.
LEMMA MonitorKeepsAlone ==
  ASSUME TypeOK, InTurn, Alone, CooldownRespected, Monitor
  PROVE  Alone' /\ CooldownRespected'
<1>1. CASE \E p \in Procs : pc[p] \in Busy
  BY <1>1, BusyMonitor DEF Alone, CooldownRespected, CanScale, Tracked
<1>2. CASE \A p \in Procs : pc[p] \notin Busy
  <2>1. \A p \in Procs : pc[p] \notin ScaleOps
    BY <1>2 DEF ScaleOps, BeforeRecord, Busy, ScalesUp, ScalesDown
  <2>2. CASE UNCHANGED <<pc, arg>>
    BY <2>1, <2>2 DEF Alone, CooldownRespected, ScaleOps, BeforeRecord
  <2>3. ASSUME NEW entry, NEW x, Gate, Spawn(entry, x), entry = "up" => x = NoNode,
               entry # "create", UNCHANGED <<table, sinceEvent>>
        PROVE  Alone' /\ CooldownRespected'
    <3>1. PICK p \in Procs : pc' = [pc EXCEPT ![p] = entry] /\ arg' = [arg EXCEPT ![p] = x]
      BY <2>3 DEF Spawn, Goto
    <3>2. \A q \in Procs : /\ pc'[q] = IF q = p THEN entry ELSE pc[q]
                           /\ arg'[q] = IF q = p THEN x ELSE arg[q]
      BY <3>1 DEF TypeOK
    <3>3. \A id \in Tracked(nodes)' : nodes'[id] = "ready"
      BY <2>3 DEF Gate, IsScalingInProgress, Tracked
    <3>4. CanScale'
      BY <2>3 DEF Gate, CanScale
    <3>5. \A q \in Procs : pc'[q] \in {"up", "create"} => arg'[q] = NoNode
      BY <2>1, <2>3, <3>2 DEF ScaleOps, BeforeRecord
    <3>6. QED
      BY <3>3, <3>4, <3>5 DEF Alone, CooldownRespected
  <2>4. QED
    BY <2>2, <2>3, MonitorFrame
<1>3. QED
  BY <1>1, <1>2

\* No step breaks what the gate has established for an operation.
LEMMA AloneKept ==
  ASSUME Prompt
  PROVE  TypeOK /\ InTurn /\ Alone /\ CooldownRespected /\ [Next]_vars
           => Alone' /\ CooldownRespected'
<1> SUFFICES ASSUME TypeOK, InTurn, Alone, CooldownRespected, [Next]_vars
             PROVE  Alone' /\ CooldownRespected'
  OBVIOUS
<1>1. ASSUME NEW p \in Procs, Goroutine(p) PROVE Alone' /\ CooldownRespected'
  <2>1. Alone'
    BY <1>1, GoroutineKeepsAlone
  <2>2. ASSUME NEW q \in Procs, pc'[q] \in BeforeRecord PROVE CanScale'
    <3>1. CASE q = p
      <4>1. pc[p] \in BeforeRecord /\ sinceEvent' = sinceEvent
        BY <1>1, <2>2, <3>1 DEF TypeOK, Goto, Exit, BeforeRecord,
           Goroutine, ScaleUp, CreateGPUNode, CreateFails, TrackNode,
           DestroyUntracked, DestroyCall, RecordScaleUp, WaitForRunning, WaitTimesOut,
           MarkReady, PurgeNode, DestroyPurged, ForgetPurged, ScaleDown, DrainNode,
           MarkDestroying, ScaleDownMove, DestroyNode, RemoveDestroyed,
           RecordScaleDown, ReadTargets, WriteTargets
      <4>2. QED
        BY <4>1 DEF CooldownRespected, CanScale
    <3>2. CASE q # p
      <4>1. pc[q] \in BeforeRecord
        BY <1>1, <2>2, <3>2, GoroutineFrame
      <4>2. pc[p] \notin Busy
        BY <3>2, <4>1 DEF InTurn, BeforeRecord, Busy, ScalesUp, ScalesDown
      <4>3. sinceEvent' = sinceEvent
        BY <1>1, <4>2, GoroutineFrame DEF Busy, ScalesUp, ScalesDown
      <4>4. QED
        BY <4>1, <4>3 DEF CooldownRespected, CanScale
    <3>3. QED
      BY <3>1, <3>2
  <2>3. QED
    BY <2>1, <2>2 DEF CooldownRespected
<1>2. CASE Monitor
  BY <1>2, MonitorKeepsAlone
<1>3. CASE TimePasses
  <2>1. \A p \in Procs : pc[p] \in {"idle", "wait"}
    BY <1>3 DEF TimePasses, Patient, Prompt
  <2>2. QED
    BY <1>3, <2>1 DEF TimePasses, Alone, CooldownRespected, ScaleOps, BeforeRecord
<1>4. ASSUME NEW id \in NodeIds, Boot(id) \/ Vanish(id) PROVE Alone' /\ CooldownRespected'
  BY <1>4 DEF Boot, Vanish, Alone, CooldownRespected, CanScale, Tracked
<1>5. CASE Crash
  BY <1>5 DEF Crash, Alone, CooldownRespected, ScaleOps, BeforeRecord
<1>6. CASE UNCHANGED vars
  BY <1>6 DEF vars, Alone, CooldownRespected, CanScale, Tracked
<1>7. QED
  BY <1>1, <1>2, <1>3, <1>4, <1>5, <1>6 DEF Next

\* Both hold in every behaviour.
LEMMA AloneAlways == ASSUME Prompt PROVE Spec => [](Alone /\ CooldownRespected)
<1>1. Init => Alone /\ CooldownRespected
  BY DEF Init, Alone, CooldownRespected, ScaleOps, BeforeRecord
<1>2. QED
  BY <1>1, AloneKept, TypeCorrect, TurnsTaken, PTL DEF Spec

\* Whose turn it is, and what else is in transition, leaves one operation.
LEMMA OneInTurn == InTurn /\ Alone => OneScaleOperation
BY DEF InTurn, Alone, OneScaleOperation, ScaleOps, BeforeRecord, Busy, ScalesUp, ScalesDown

\* The in-progress guard works: while the API answers within a tick no two
\* scale operations run at a time, and none runs beside a node in transition.
THEOREM ScalesOneAtATime == ASSUME Prompt PROVE Spec => []OneScaleOperation
BY OneInTurn, TurnsTaken, AloneAlways, PTL

\* The cooldown gate works: the operation that starts is the only one, so that
\* the event it waited out is still the last one when it is recorded.
THEOREM CooldownHolds == ASSUME Prompt PROVE Spec => []CooldownRespected
BY AloneAlways, PTL

-----------------------------------------------------------------------------
(* What a listing is worth when it is used *)

\* A destruction has happened when a goroutine goes on to forget the node: a
\* wait that gave up on an instance that exists does not meet a destruction
\* that fails.
ConclusiveDestroy == ~({"bootTimeout", "destroyFails"} \subseteq Faults)

Listing == {"listed", "adopt", "add", "observe"}

\* The monitor's answer still names every instance, what it is about to drop
\* has none, and so has the node a goroutine is about to forget.
Cleared ==
  /\ mpc \in Listing => Listed(cloud) \subseteq Listed(seen)
  /\ mpc = "prune" => \A id \in todo : cloud[id] = "none"
  /\ \A p \in Procs : pc[p] \in {"destroyed", "forget"} => cloud[arg[p]] = "none"
  /\ "bootTimeout" \notin Faults =>
       \A p \in Procs : pc[p] \in {"purge", "purged"} => cloud[arg[p]] = "none"

\* Instances only disappear while the monitor looks at its listing.
NoneCreated == \A id \in NodeIds : cloud[id] = "none" => cloud'[id] = "none"

\* Only CreateGPUNode makes an instance.
LEMMA OnlyCreate ==
  ASSUME TypeOK, NEW p \in Procs, Goroutine(p)
  PROVE  NoneCreated \/ CreateGPUNode(p)
BY DEF NoneCreated, TypeOK, Goroutine, ScaleUp, CreateFails, TrackNode,
   DestroyUntracked, DestroyCall, RecordScaleUp, WaitForRunning, WaitTimesOut,
   MarkReady, PurgeNode, DestroyPurged, ForgetPurged, ScaleDown, DrainNode,
   MarkDestroying, ScaleDownMove, DestroyNode, RemoveDestroyed,
   RecordScaleDown, ReadTargets, WriteTargets

\* A goroutine that goes on to forget a node has seen to its destruction.
LEMMA GoroutineClears ==
  ASSUME ConclusiveDestroy, TypeOK, Cleared, NEW p \in Procs, Goroutine(p)
  PROVE  /\ pc'[p] \in {"destroyed", "forget"} => cloud'[arg'[p]] = "none"
         /\ ("bootTimeout" \notin Faults /\ pc'[p] \in {"purge", "purged"})
              => cloud'[arg'[p]] = "none"
<1> USE DEF TypeOK, NodePCs, Goto, Exit
<1>1. CASE DestroyNode(p)
  BY <1>1 DEF DestroyNode, DestroyCall
<1>2. CASE DestroyPurged(p)
  <2>1. pc[p] = "purged" /\ arg' = arg /\ arg[p] \in NodeIds /\ pc'[p] = "forget"
    BY <1>2 DEF DestroyPurged, DestroyCall
  <2>2. CASE "destroyFails" \in Faults
    <3>1. cloud[arg[p]] = "none"
      BY <2>1, <2>2 DEF ConclusiveDestroy, Cleared
    <3>2. QED
      BY <1>2, <2>1, <3>1 DEF DestroyPurged, DestroyCall
  <2>3. CASE "destroyFails" \notin Faults
    BY <1>2, <2>1, <2>3 DEF DestroyPurged, DestroyCall
  <2>4. QED
    BY <2>2, <2>3
<1>3. CASE WaitTimesOut(p)
  BY <1>3 DEF WaitTimesOut
<1>4. CASE PurgeNode(p)
  BY <1>4 DEF PurgeNode, Cleared
<1>5. CASE pc'[p] \notin {"destroyed", "forget", "purge", "purged"}
  BY <1>5
<1>6. QED
  BY <1>1, <1>2, <1>3, <1>4, <1>5
     DEF Goroutine, ScaleUp, CreateGPUNode, CreateFails, TrackNode,
     DestroyUntracked, DestroyCall, RecordScaleUp, WaitForRunning,
     MarkReady, ForgetPurged, ScaleDown, DrainNode,
     MarkDestroying, ScaleDownMove, RemoveDestroyed,
     RecordScaleDown, ReadTargets, WriteTargets

\* No step of a goroutine makes a listing stale in a way that matters.
LEMMA GoroutineKeepsCleared ==
  ASSUME ConclusiveDestroy, TypeOK, InTurn, Cleared, NEW p \in Procs, Goroutine(p)
  PROVE  Cleared'
<1>1. UNCHANGED <<mpc, seen, todo>> /\ \A q \in Procs \ {p} : pc'[q] = pc[q] /\ arg'[q] = arg[q]
  BY GoroutineFrame
<1>2. ASSUME NEW q \in Procs
      PROVE  /\ pc'[q] \in {"destroyed", "forget"} => cloud'[arg'[q]] = "none"
             /\ ("bootTimeout" \notin Faults /\ pc'[q] \in {"purge", "purged"})
                  => cloud'[arg'[q]] = "none"
  <2>1. CASE q = p
    BY <2>1, GoroutineClears
  <2>2. CASE q # p
    <3>1. cloud[arg[q]] = "none" /\ arg[q] \in NodeIds => cloud'[arg[q]] = "none"
      <4>1. CASE NoneCreated
        BY <4>1 DEF NoneCreated
      <4>2. CASE CreateGPUNode(p)
        <5>1. PICK id \in FreshIds : cloud' = [cloud EXCEPT ![id] = "booting"]
          BY <4>2 DEF CreateGPUNode
        <5>2. id # arg[q]
          BY <5>1 DEF FreshIds
        <5>3. QED
          BY <5>1, <5>2 DEF TypeOK
      <4>3. QED
        BY <4>1, <4>2, OnlyCreate
    <3>2. pc'[q] = pc[q] /\ arg'[q] = arg[q]
      BY <1>1, <2>2
    <3>3. QED
      BY <3>1, <3>2 DEF Cleared, TypeOK, NodePCs
  <2>3. QED
    BY <2>1, <2>2
<1>3. mpc \in Listing \cup {"prune"} => NoneCreated
  <2>1. CreateGPUNode(p) => mpc \in {"sleep", "down"}
    BY DEF CreateGPUNode, InTurn, Busy, ScalesUp
  <2>2. QED
    BY <2>1, OnlyCreate DEF Listing
<1>4. /\ mpc' \in Listing => Listed(cloud)' \subseteq Listed(seen)'
      /\ mpc' = "prune" => \A id \in todo' : cloud'[id] = "none"
  BY <1>1, <1>3 DEF Cleared, Listed, NoneCreated, TypeOK
<1>5. QED
  BY <1>2, <1>4 DEF Cleared

\* The monitor takes an answer that is up to date, and drops what is not in it.
LEMMA MonitorKeepsCleared ==
  ASSUME TypeOK, Cleared, Monitor PROVE Cleared'
<1>1. cloud' = cloud
  BY DEF Monitor, StartRound, ListManagedNodes, ListFails, ListArrives, LookUp,
     Adopt, Observe, Compare, Prune, Reconciled, MonitorReadsTargets,
     MonitorWritesTargets, GetQueueStats, EvaluateScaleUp, ColdStart, ScaleOut,
     EvaluateScaleDown, ScaleIn
<1>2. /\ mpc' \in Listing => Listed(cloud) \subseteq Listed(seen')
      /\ mpc' = "prune" => \A id \in todo' : cloud[id] = "none"
  <2>1. CASE Compare
    BY <2>1 DEF Compare, Cleared, Listing, Listed, Tracked
  <2>2. CASE Prune
    BY <2>2 DEF Prune, Cleared, Listing
  <2>3. CASE ~Compare /\ ~Prune
    BY <2>3 DEF Cleared, Listing, Monitor, StartRound, ListManagedNodes, ListFails,
       ListArrives, LookUp, Adopt, Observe, Reconciled, MonitorReadsTargets,
       MonitorWritesTargets, GetQueueStats, EvaluateScaleUp, ColdStart, ScaleOut,
       EvaluateScaleDown, ScaleIn, EndRound
  <2>4. QED
    BY <2>1, <2>2, <2>3
<1>3. ASSUME NEW q \in Procs
      PROVE  /\ pc'[q] \in {"destroyed", "forget"} => cloud[arg'[q]] = "none"
             /\ ("bootTimeout" \notin Faults /\ pc'[q] \in {"purge", "purged"})
                  => cloud[arg'[q]] = "none"
  <2>1. CASE UNCHANGED <<pc, arg>>
    BY <2>1 DEF Cleared
  <2>2. ASSUME NEW x, Spawn("up", x) \/ Spawn("down", x)
        PROVE  pc'[q] \in {"up", "down"} \/ (pc'[q] = pc[q] /\ arg'[q] = arg[q])
    BY <2>2 DEF Spawn, Goto, TypeOK
  <2>3. QED
    BY <2>1, <2>2, MonitorFrame DEF Cleared
<1>4. QED
  BY <1>1, <1>2, <1>3 DEF Cleared, Listed

\* No step breaks that, if a destruction can be relied on.
LEMMA ClearedKept ==
  ASSUME ConclusiveDestroy PROVE TypeOK /\ InTurn /\ Cleared /\ [Next]_vars => Cleared'
<1> SUFFICES ASSUME TypeOK, InTurn, Cleared, [Next]_vars PROVE Cleared'
  OBVIOUS
<1>1. ASSUME NEW p \in Procs, Goroutine(p) PROVE Cleared'
  BY <1>1, GoroutineKeepsCleared
<1>2. CASE Monitor
  BY <1>2, MonitorKeepsCleared
<1>3. CASE TimePasses
  BY <1>3 DEF TimePasses, Cleared, Listed
<1>4. ASSUME NEW id \in NodeIds, Boot(id) \/ Vanish(id) PROVE Cleared'
  <2>1. /\ NoneCreated
        /\ UNCHANGED <<pc, arg, mpc, seen, todo>>
    BY <1>4 DEF Boot, Vanish, NoneCreated, TypeOK
  <2>2. QED
    BY <2>1 DEF Cleared, Listed, NoneCreated, TypeOK, NodePCs
<1>5. CASE Crash
  BY <1>5 DEF Crash, Cleared, Listing
<1>6. CASE UNCHANGED vars
  BY <1>6 DEF vars, Cleared, Listed
<1>7. QED
  BY <1>1, <1>2, <1>3, <1>4, <1>5, <1>6 DEF Next

\* It holds in every behaviour.
LEMMA ClearedAlways == ASSUME Prompt, ConclusiveDestroy PROVE Spec => []Cleared
<1>1. Init => Cleared
  BY DEF Init, Cleared, Listing
<1>2. QED
  BY <1>1, ClearedKept, TypeCorrect, TurnsTaken, PTL DEF Spec

\* RemoveNode is called after the destruction, as its comment asks: by the
\* goroutine that has destroyed the instance, or by a reconciliation whose
\* listing does not name it, a listing that no creation has outdated.
THEOREM RemovesAfterDestruction ==
  ASSUME Prompt, ConclusiveDestroy PROVE Spec => RemovedAfterDestruction
<1>1. TypeOK /\ Cleared /\ [Next]_vars =>
        [\A id \in NodeIds :
           nodes[id] # Absent /\ nodes'[id] = Absent /\ ~boot' => cloud[id] = "none"]_vars
  <2> SUFFICES ASSUME TypeOK, Cleared, Next, NEW id \in NodeIds,
                      nodes[id] # Absent, nodes'[id] = Absent, boot' # TRUE
               PROVE  cloud[id] = "none"
    OBVIOUS
  <2> USE DEF TypeOK, Tables, NodeState, Absent, Move, Remove
  <2>1. ASSUME NEW p \in Procs, Goroutine(p) PROVE cloud[id] = "none"
    <3>1. (ForgetPurged(p) \/ RemoveDestroyed(p)) /\ arg[p] = id
      BY <2>1 DEF Goroutine, ScaleUp, CreateGPUNode, CreateFails, TrackNode,
         DestroyUntracked, RecordScaleUp, WaitForRunning, WaitTimesOut,
         MarkReady, PurgeNode, DestroyPurged, ForgetPurged, ScaleDown, DrainNode,
         MarkDestroying, ScaleDownMove, DestroyNode, RemoveDestroyed,
         RecordScaleDown, ReadTargets, WriteTargets
    <3>2. QED
      BY <3>1 DEF ForgetPurged, RemoveDestroyed, Cleared
  <2>2. CASE Monitor
    <3>1. Prune /\ id \in todo
      BY <2>2 DEF Monitor, StartRound, ListManagedNodes, ListFails, ListArrives, LookUp,
         Adopt, Observe, Compare, Prune, Reconciled, MonitorReadsTargets,
         MonitorWritesTargets, GetQueueStats, EvaluateScaleUp, ColdStart, ScaleOut,
         EvaluateScaleDown, ScaleIn
    <3>2. QED
      BY <3>1 DEF Prune, Cleared
  <2>3. CASE TimePasses
    BY <2>3 DEF TimePasses
  <2>4. ASSUME NEW x \in NodeIds, Boot(x) \/ Vanish(x) PROVE FALSE
    BY <2>4 DEF Boot, Vanish
  <2>5. CASE Crash
    BY <2>5 DEF Crash
  <2>6. QED
    BY <2>1, <2>2, <2>3, <2>4, <2>5 DEF Next
<1>2. QED
  BY <1>1, TypeCorrect, ClearedAlways, PTL DEF Spec, RemovedAfterDestruction

-----------------------------------------------------------------------------
(* The cap on the instances that exist *)

\* Sets of ids are finite, and a part of one is no larger.
LEMMA IdSets ==
  ASSUME NEW T \in SUBSET NodeIds, NEW S \in SUBSET T
  PROVE  /\ Cardinality(S) \in Nat /\ Cardinality(T) \in Nat
         /\ Cardinality(S) <= Cardinality(T)
<1>1. IsFiniteSet(T)
  BY NodeIdsAssumption, FS_Subset
<1>2. IsFiniteSet(S) /\ Cardinality(S) <= Cardinality(T)
  BY <1>1, FS_Subset
<1>3. QED
  BY <1>1, <1>2, FS_CardinalityType

\* An id that joins a set makes it larger by one at most, an id that leaves it
\* smaller by one.
LEMMA OneMoreId ==
  ASSUME NEW T \in SUBSET NodeIds, NEW id
  PROVE  /\ Cardinality(T \cup {id}) <= Cardinality(T) + 1
         /\ id \notin T => Cardinality(T \cup {id}) = Cardinality(T) + 1
         /\ id \in T => Cardinality(T \ {id}) = Cardinality(T) - 1
<1>1. IsFiniteSet(T) /\ Cardinality(T) \in Nat
  BY NodeIdsAssumption, FS_Subset, FS_CardinalityType
<1>2. id \in T => T \cup {id} = T
  OBVIOUS
<1>3. QED
  BY <1>1, <1>2, FS_AddElement, FS_RemoveElement

\* The monitor has an answer in hand only while it uses it.
ListingInHand ==
  /\ mpc \notin Listing => Listed(seen) = {}
  /\ mpc \in {"adopt", "add", "observe"} => todo \subseteq Listed(seen)
  /\ mpc \in {"add", "observe"} => cur \in Listed(seen)

\* No step loses it, or keeps it longer.
LEMMA ListingInHandKept == TypeOK /\ ListingInHand /\ [Next]_vars => ListingInHand'
<1> SUFFICES ASSUME TypeOK, ListingInHand, [Next]_vars PROVE ListingInHand'
  OBVIOUS
<1>1. CASE UNCHANGED <<mpc, seen, todo, cur>>
  BY <1>1 DEF ListingInHand, Listed
<1>2. ASSUME NEW p \in Procs, Goroutine(p) PROVE UNCHANGED <<mpc, seen, todo, cur>>
  BY <1>2, GoroutineFrame
<1>3. CASE Monitor
  BY <1>3 DEF ListingInHand, Listing, Listed, NoInstance, Monitor, StartRound,
     ListManagedNodes, ListFails, ListArrives, LookUp, Adopt, Observe, Compare,
     Prune, Reconciled, MonitorReadsTargets, MonitorWritesTargets, GetQueueStats,
     EvaluateScaleUp, ColdStart, ScaleOut, EvaluateScaleDown, ScaleIn, EndRound
<1>4. CASE Crash
  BY <1>4 DEF Crash, ListingInHand, Listing, Listed, NoInstance
<1>5. QED
  BY <1>1, <1>2, <1>3, <1>4 DEF Next, TimePasses, Boot, Vanish, vars

\* Before the first round nothing is in hand.
LEMMA ListingInHandInit == Init => ListingInHand
BY DEF Init, ListingInHand, Listing, Listed, NoInstance

\* It holds in every behaviour.
LEMMA ListingInHandAlways == Spec => []ListingInHand
BY ListingInHandInit, ListingInHandKept, TypeCorrect, PTL DEF Spec

\* Whatever names an instance: the table, the cloud, the answer of a listing.
Known == Tracked(nodes) \cup Listed(cloud) \cup Listed(seen)

Capped == Cardinality(Known) <= MaxNodes

\* Once the monitor has looked an instance up it is in the table, and stays
\* there until the evaluation of the queue is over.
CoveredByMonitor ==
  /\ mpc \in {"adopt", "observe"} => Listed(cloud) \ todo \subseteq Tracked(nodes)
  /\ mpc = "add" => Listed(cloud) \ (todo \cup {cur}) \subseteq Tracked(nodes)
  /\ mpc \in {"prune", "queue", "up", "coldStart", "scaleOut"}
     \/ (mpc \in {"snapshot", "write"} /\ boot = FALSE)
       => Listed(cloud) \subseteq Tracked(nodes)

\* A ScaleUp starts from a table that knows every instance, and makes one more
\* only if that leaves room for it.
CoveredByScaleUp ==
  \A p \in Procs :
    /\ pc[p] \in {"up", "create"} => Listed(cloud) \subseteq Tracked(nodes)
    /\ pc[p] = "create" => Cardinality(Tracked(nodes)) < MaxNodes
    /\ pc[p] = "created" => Listed(cloud) \subseteq Tracked(nodes) \cup {arg[p]}

Covered == CoveredByMonitor /\ CoveredByScaleUp

\* Instances disappear, and nodes that have none.
Shrinks ==
  /\ Listed(cloud)' \subseteq Listed(cloud)
  /\ Tracked(nodes)' \subseteq Tracked(nodes)
  /\ Tracked(nodes) \cap Listed(cloud)' \subseteq Tracked(nodes)'

\* All a goroutine can do, but for the steps of a ScaleUp that make an
\* instance and track it.
LEMMA GoroutineShrinks ==
  ASSUME TypeOK, Cleared, NEW p \in Procs, Goroutine(p), ~CreateGPUNode(p), ~TrackNode(p)
  PROVE  Shrinks
<1> USE DEF TypeOK, Tables, NodePCs, Move, Remove, Absent, Tracked, Listed
<1>1. Listed(cloud)' \subseteq Listed(cloud)
  BY OnlyCreate DEF NoneCreated
<1>2. CASE MarkReady(p)
  <2>1. arg[p] \in NodeIds /\ (nodes' = nodes \/ (nodes[arg[p]] # Absent /\ Move(arg[p], "ready")))
    BY <1>2 DEF MarkReady, CanMove
  <2>2. QED
    BY <1>1, <2>1 DEF Shrinks
<1>3. CASE PurgeNode(p)
  BY <1>1, <1>3 DEF PurgeNode, CanMove, Shrinks
<1>4. CASE DrainNode(p) \/ MarkDestroying(p)
  BY <1>1, <1>4 DEF DrainNode, MarkDestroying, ScaleDownMove, CanMove, Shrinks
<1>5. CASE ForgetPurged(p) \/ RemoveDestroyed(p)
  <2>1. cloud[arg[p]] = "none" /\ arg[p] \in NodeIds
    BY <1>5 DEF ForgetPurged, RemoveDestroyed, Cleared
  <2>2. cloud' = cloud
    BY <1>5 DEF ForgetPurged, RemoveDestroyed
  <2>3. QED
    BY <1>1, <1>5, <2>1, <2>2 DEF ForgetPurged, RemoveDestroyed, Shrinks
<1>6. CASE nodes' = nodes
  BY <1>1, <1>6 DEF Shrinks
<1>7. QED
  BY <1>2, <1>3, <1>4, <1>5, <1>6 DEF Goroutine, ScaleUp, CreateFails, DestroyUntracked,
     RecordScaleUp, WaitForRunning, WaitTimesOut, DestroyPurged, ScaleDown, DestroyNode,
     RecordScaleDown, ReadTargets, WriteTargets

\* Where instances and nodes only disappear the table goes on to cover the
\* cloud, as far as those are concerned that have not moved on.
LEMMA ShrunkIsCovered ==
  ASSUME TypeOK, Capped, Covered, Shrinks, UNCHANGED <<mpc, boot, seen, todo, cur>>
  PROVE  /\ Capped' /\ CoveredByMonitor'
         /\ \A p \in Procs :
              /\ pc[p] \in {"up", "create"} => Listed(cloud)' \subseteq Tracked(nodes)'
              /\ pc[p] = "create" => Cardinality(Tracked(nodes)') < MaxNodes
              /\ pc[p] = "created" => Listed(cloud)' \subseteq Tracked(nodes)' \cup {arg[p]}
<1>1. Capped'
  <2>1. Known' \subseteq Known /\ Known \subseteq NodeIds
    BY DEF Shrinks, Known, Tracked, Listed
  <2>2. QED
    BY <2>1, IdSets, Constants DEF Capped
<1>2. CoveredByMonitor'
  BY DEF Covered, CoveredByMonitor, Shrinks
<1>3. Cardinality(Tracked(nodes)) < MaxNodes => Cardinality(Tracked(nodes)') < MaxNodes
  <2>1. Tracked(nodes)' \subseteq Tracked(nodes) /\ Tracked(nodes) \subseteq NodeIds
    BY DEF Shrinks, Tracked
  <2>2. QED
    BY <2>1, IdSets, Constants
<1>4. QED
  BY <1>1, <1>2, <1>3 DEF Covered, CoveredByScaleUp, Shrinks

\* The creation and the tracking of an instance keep the cap, because no other
\* instance is unknown to the table.
LEMMA GoroutineKeepsCover ==
  ASSUME TypeOK, InTurn, Alone, ListingInHand, Cleared, Capped, Covered,
         NEW p \in Procs, Goroutine(p)
  PROVE  Capped' /\ Covered'
<1>1. UNCHANGED <<mpc, boot, seen, todo, cur>> /\ \A q \in Procs \ {p} : pc'[q] = pc[q] /\ arg'[q] = arg[q]
  BY GoroutineFrame
<1>2. CASE ~CreateGPUNode(p) /\ ~TrackNode(p)
  <2>1. Shrinks
    BY <1>2, GoroutineShrinks
  <2>2. Capped' /\ CoveredByMonitor'
    BY <1>1, <2>1, ShrunkIsCovered
  <2>3. ASSUME NEW q \in Procs
        PROVE  /\ pc'[q] \in {"up", "create"} => Listed(cloud)' \subseteq Tracked(nodes)'
               /\ pc'[q] = "create" => Cardinality(Tracked(nodes)') < MaxNodes
               /\ pc'[q] = "created" => Listed(cloud)' \subseteq Tracked(nodes)' \cup {arg'[q]}
    <3>1. CASE pc'[q] = pc[q] /\ arg'[q] = arg[q]
      BY <1>1, <2>1, <3>1, ShrunkIsCovered
    <3>2. CASE q = p /\ ScaleUp(p)
      <4>1. pc[p] = "up" /\ nodes' = nodes /\ pc'[p] \in {"create", "idle"}
            /\ (pc'[p] = "create" => ActiveCount(nodes) < MaxNodes)
        BY <3>2 DEF ScaleUp, Goto, TypeOK
      <4>2. Tracked(nodes) \ NodesByState(nodes, "destroying") = Tracked(nodes)
        BY <4>1, Constants DEF Alone, ScaleOps, BeforeRecord, Tracked, NodesByState
      <4>3. pc'[p] = "create" => Cardinality(Tracked(nodes)') < MaxNodes
        BY <4>1, <4>2 DEF ActiveCount, Tracked
      <4>4. QED
        BY <1>1, <2>1, <3>2, <4>1, <4>3, ShrunkIsCovered
    <3>3. CASE q = p /\ ~ScaleUp(p)
      <4>1. pc'[p] \notin {"up", "create", "created"}
        BY <1>2, <3>3 DEF TypeOK, Goto, Exit, Goroutine, CreateFails,
           DestroyUntracked, DestroyCall, RecordScaleUp, WaitForRunning, WaitTimesOut,
           MarkReady, PurgeNode, DestroyPurged, ForgetPurged, ScaleDown, DrainNode,
           MarkDestroying, ScaleDownMove, DestroyNode, RemoveDestroyed,
           RecordScaleDown, ReadTargets, WriteTargets
      <4>2. QED
        BY <3>3, <4>1
    <3>4. QED
      BY <1>1, <3>1, <3>2, <3>3
  <2>4. QED
    BY <2>2, <2>3 DEF Covered, CoveredByScaleUp
<1>3. CASE CreateGPUNode(p) \/ TrackNode(p)
  <2>1. pc[p] \in {"create", "created"}
    BY <1>3 DEF CreateGPUNode, TrackNode
  <2>2. mpc \in {"sleep", "down"} /\ \A q \in Procs \ {p} : pc[q] \notin Busy
    BY <2>1 DEF InTurn, Busy, ScalesUp
  <2>3. CoveredByMonitor'
    BY <1>1, <2>2 DEF CoveredByMonitor
  <2>4. \A q \in Procs \ {p} : pc'[q] \notin {"up", "create", "created"}
    BY <1>1, <2>2 DEF Busy, ScalesUp
  <2>5. Known = Tracked(nodes) \cup Listed(cloud) /\ Known' = Tracked(nodes)' \cup Listed(cloud)'
    BY <1>1, <2>2 DEF ListingInHand, Listing, Known, Listed
  <2>6. CASE CreateGPUNode(p)
    <3>1. PICK id \in FreshIds : /\ cloud' = [cloud EXCEPT ![id] = "booting"]
                                 /\ \/ pc'[p] = "created" /\ arg'[p] = id
                                    \/ pc'[p] = "idle"
      BY <2>6 DEF CreateGPUNode, Goto, Exit, TypeOK
    <3>2. nodes' = nodes /\ Listed(cloud) \subseteq Tracked(nodes) /\ Cardinality(Tracked(nodes)) < MaxNodes
      BY <2>6 DEF CreateGPUNode, Covered, CoveredByScaleUp
    <3>3. Listed(cloud)' \subseteq Listed(cloud) \cup {id}
      BY <3>1 DEF Listed, TypeOK
    <3>4. Known' \subseteq Tracked(nodes) \cup {id} /\ Tracked(nodes) \cup {id} \subseteq NodeIds
      BY <2>5, <3>1, <3>2, <3>3 DEF Tracked, FreshIds
    <3>5. Capped'
      <4>1. /\ Cardinality(Known') <= Cardinality(Tracked(nodes) \cup {id})
            /\ Cardinality(Tracked(nodes) \cup {id}) <= Cardinality(Tracked(nodes)) + 1
            /\ Cardinality(Known') \in Nat /\ Cardinality(Tracked(nodes) \cup {id}) \in Nat
            /\ Cardinality(Tracked(nodes)) \in Nat
        BY <3>4, IdSets, OneMoreId
      <4>2. QED
        BY <3>2, <4>1, Constants DEF Capped
    <3>6. Listed(cloud)' \subseteq Tracked(nodes)' \cup {id}
      BY <3>2, <3>3 DEF Tracked
    <3>7. QED
      BY <2>3, <2>4, <3>1, <3>5, <3>6 DEF Covered, CoveredByScaleUp
  <2>7. CASE TrackNode(p)
    <3>1. arg[p] \in NodeIds /\ cloud' = cloud /\ Listed(cloud) \subseteq Tracked(nodes) \cup {arg[p]}
      BY <2>7 DEF TrackNode, TypeOK, NodePCs, Covered, CoveredByScaleUp
    <3>2. pc'[p] \in {"recordUp", "undo"}
      BY <2>7 DEF TrackNode, Goto, TypeOK
    <3>3. ASSUME CanAdd(nodes, arg[p]) PROVE Capped'
      <4>1. Tracked(nodes)' \subseteq Tracked(nodes) \cup {arg[p]}
        BY <2>7, <3>1, <3>3 DEF TrackNode, Move, Tracked, TypeOK, Tables
      <4>2. Known' \subseteq Tracked(nodes) \cup {arg[p]} /\ Tracked(nodes) \cup {arg[p]} \subseteq NodeIds
        BY <2>5, <3>1, <4>1 DEF Tracked, Listed
      <4>3. /\ Cardinality(Known') <= Cardinality(Tracked(nodes) \cup {arg[p]})
            /\ Cardinality(Tracked(nodes) \cup {arg[p]}) <= Cardinality(Tracked(nodes)) + 1
            /\ Cardinality(Known') \in Nat /\ Cardinality(Tracked(nodes) \cup {arg[p]}) \in Nat
            /\ Cardinality(Tracked(nodes)) \in Nat
        BY <4>2, IdSets, OneMoreId
      <4>4. QED
        BY <3>3, <4>3, Constants DEF CanAdd, Capped
    <3>4. ASSUME ~CanAdd(nodes, arg[p]) PROVE Capped'
      BY <2>5, <2>7, <3>1, <3>4 DEF TrackNode, Capped, Tracked, Listed
    <3>5. QED
      BY <2>3, <2>4, <3>2, <3>3, <3>4 DEF Covered, CoveredByScaleUp
  <2>8. QED
    BY <1>3, <2>6, <2>7
<1>4. QED
  BY <1>2, <1>3

\* The monitor adopts what it finds: the table has room for every instance of
\* a listing, because no more exist than it has room for.
LEMMA MonitorKeepsCover ==
  ASSUME TypeOK, InTurn, ListingInHand, Cleared, Capped, Covered, Monitor
  PROVE  Capped' /\ Covered'
<1>1. cloud' = cloud
  BY DEF Monitor, StartRound, ListManagedNodes, ListFails, ListArrives, LookUp,
     Adopt, Observe, Compare, Prune, Reconciled, MonitorReadsTargets,
     MonitorWritesTargets, GetQueueStats, EvaluateScaleUp, ColdStart, ScaleOut,
     EvaluateScaleDown, ScaleIn
<1>2. Known \subseteq NodeIds /\ Known' \subseteq NodeIds
  BY <1>1 DEF Known, Tracked, Listed
<1>3. Capped'
  <2>1. Known' \subseteq Known
    <3>1. CASE Adopt
      <4>1. cur \in Listed(seen) /\ seen' = seen
        BY <3>1 DEF Adopt, ListingInHand
      <4>2. Tracked(nodes)' \subseteq Tracked(nodes) \cup {cur}
        BY <3>1 DEF Adopt, Move, Tracked, TypeOK, Tables
      <4>3. QED
        BY <1>1, <4>1, <4>2 DEF Known, Listed
    <3>2. CASE Observe
      <4>1. nodes' = nodes \/ (nodes[cur] = "provisioning" /\ nodes' = [nodes EXCEPT ![cur] = "ready"])
        BY <3>2 DEF Observe, Move
      <4>2. Tracked(nodes)' \subseteq Tracked(nodes)
        BY <4>1 DEF Tracked, TypeOK, Tables, Absent
      <4>3. seen' = seen
        BY <3>2 DEF Observe
      <4>4. QED
        BY <1>1, <4>2, <4>3 DEF Known, Listed
    <3>3. CASE Prune
      BY <1>1, <3>3 DEF Prune, Remove, Known, Tracked, Listed, TypeOK, Tables
    <3>4. CASE nodes' = nodes /\ (seen' = seen \/ seen' = cloud \/ seen' = NoInstance)
      BY <1>1, <3>4 DEF Known, Tracked, Listed, NoInstance
    <3>5. QED
      BY <3>1, <3>2, <3>3, <3>4
         DEF Monitor, StartRound, ListManagedNodes, ListFails, ListArrives, LookUp,
             Compare, Reconciled, MonitorReadsTargets, MonitorWritesTargets,
             GetQueueStats, EvaluateScaleUp, ColdStart, ScaleOut, EvaluateScaleDown,
             ScaleIn
  <2>2. QED
    BY <1>2, <2>1, IdSets, Constants DEF Capped
<1>4. CoveredByMonitor'
  <2> USE DEF Covered, CoveredByMonitor
  <2>1. CASE ListArrives
    BY <1>1, <2>1 DEF ListArrives, Cleared, Listing, Listed
  <2>2. CASE LookUp
    BY <1>1, <2>2 DEF LookUp, Listed, Tracked
  <2>3. CASE Adopt
    <3>1. CASE CanAdd(nodes, cur)
      BY <1>1, <2>3, <3>1 DEF Adopt, Move, Listed, Tracked, TypeOK, Tables, Absent
    <3>2. CASE ~CanAdd(nodes, cur)
      <4>1. nodes' = nodes /\ todo' = todo /\ mpc' = "adopt" /\ mpc = "add"
        BY <2>3, <3>2 DEF Adopt
      <4>2. cur \in Tracked(nodes)
        <5>1. SUFFICES ASSUME cur \notin Tracked(nodes) PROVE FALSE
          OBVIOUS
        <5>2. cur \in Listed(seen)
          BY <4>1 DEF ListingInHand
        <5>3. Tracked(nodes) \cup {cur} \subseteq Known
          BY <5>2 DEF Known
        <5>4. /\ Cardinality(Tracked(nodes) \cup {cur}) <= Cardinality(Known)
              /\ Cardinality(Tracked(nodes) \cup {cur}) = Cardinality(Tracked(nodes)) + 1
              /\ Cardinality(Known) \in Nat /\ Cardinality(Tracked(nodes)) \in Nat
          BY <1>2, <5>1, <5>3, IdSets, OneMoreId DEF Known
        <5>5. ~(Cardinality(Tracked(nodes)) < MaxNodes)
          BY <3>2, <5>1, <5>2 DEF CanAdd, Tracked, Listed
        <5>6. QED
          BY <5>4, <5>5, Constants DEF Capped
      <4>3. QED
        BY <1>1, <4>1, <4>2 DEF Listed, Tracked
    <3>3. QED
      BY <3>1, <3>2
  <2>4. CASE Observe
    <3>1. nodes' = nodes \/ (nodes[cur] = "provisioning" /\ nodes' = [nodes EXCEPT ![cur] = "ready"])
      BY <2>4 DEF Observe, Move
    <3>2. Tracked(nodes)' = Tracked(nodes)
      BY <3>1 DEF Tracked, TypeOK, Tables, Absent
    <3>3. mpc = "observe" /\ mpc' = "adopt" /\ todo' = todo
      BY <2>4 DEF Observe
    <3>4. QED
      BY <1>1, <3>2, <3>3 DEF Listed
  <2>5. CASE Compare
    BY <1>1, <2>5 DEF Compare, Listed, Tracked
  <2>6. CASE Prune
    <3>1. PICK id \in todo : nodes' = nodes \/ nodes' = [nodes EXCEPT ![id] = Absent]
      BY <2>6 DEF Prune, Remove
    <3>2. cloud[id] = "none" /\ mpc = "prune" /\ mpc' = mpc
      BY <2>6, <3>1 DEF Prune, Cleared
    <3>3. Tracked(nodes) \subseteq Tracked(nodes)' \cup {id}
      BY <3>1 DEF Tracked, TypeOK, Tables
    <3>4. QED
      BY <1>1, <3>2, <3>3 DEF Listed
  <2>7. CASE /\ UNCHANGED <<nodes, boot>>
             /\ \/ mpc' \in {"sleep", "list", "listed", "down", "scaleIn"}
                \/ Reconciled \/ MonitorReadsTargets \/ GetQueueStats \/ EvaluateScaleUp
                \/ (ListFails /\ mpc' = "snapshot" /\ boot)
    BY <1>1, <2>7 DEF Reconciled, MonitorReadsTargets, GetQueueStats, EvaluateScaleUp,
       Listed, Tracked, ListFails, TypeOK
  <2>8. CASE MonitorWritesTargets
    BY <1>1, <2>8 DEF MonitorWritesTargets, Listed, Tracked, TypeOK
  <2>9. QED
    BY <2>1, <2>2, <2>3, <2>4, <2>5, <2>6, <2>7, <2>8
       DEF Monitor, StartRound, ListManagedNodes, ListFails, Reconciled,
           MonitorReadsTargets, GetQueueStats, EvaluateScaleUp, ColdStart, ScaleOut,
           EvaluateScaleDown, ScaleIn, EndRound
<1>5. CoveredByScaleUp'
  <2>1. CASE \E p \in Procs : pc[p] \in Busy
    BY <2>1, BusyMonitor DEF Covered, CoveredByScaleUp, Listed, Tracked
  <2>2. CASE \A p \in Procs : pc[p] \notin Busy
    <3>1. CASE UNCHANGED <<pc, arg>> \/ Spawn("down", cur)
      <4>1. \A p \in Procs : pc'[p] \notin {"up", "create", "created"}
        BY <2>2, <3>1 DEF Spawn, Goto, TypeOK, Busy, ScalesUp
      <4>2. QED
        BY <4>1 DEF CoveredByScaleUp
    <3>2. CASE (ColdStart \/ ScaleOut) /\ Spawn("up", NoNode) /\ nodes' = nodes
      <4>1. Listed(cloud) \subseteq Tracked(nodes)
        BY <3>2 DEF ColdStart, ScaleOut, Covered, CoveredByMonitor
      <4>2. \A p \in Procs : pc'[p] \notin {"create", "created"}
        BY <2>2, <3>2 DEF Spawn, Goto, TypeOK, Busy, ScalesUp
      <4>3. QED
        BY <1>1, <3>2, <4>1, <4>2 DEF CoveredByScaleUp, Listed, Tracked
    <3>3. QED
      BY <3>1, <3>2, MonitorFrame
  <2>3. QED
    BY <2>1, <2>2
<1>6. QED
  BY <1>3, <1>4, <1>5 DEF Covered

\* No step names an instance that the cap has no room for.
LEMMA CoverKept ==
  TypeOK /\ InTurn /\ Alone /\ ListingInHand /\ Cleared /\ Capped /\ Covered /\ [Next]_vars
    => Capped' /\ Covered'
<1> SUFFICES ASSUME TypeOK, InTurn, Alone, ListingInHand, Cleared, Capped, Covered, [Next]_vars
             PROVE  Capped' /\ Covered'
  OBVIOUS
<1>1. ASSUME NEW p \in Procs, Goroutine(p) PROVE Capped' /\ Covered'
  BY <1>1, GoroutineKeepsCover
<1>2. CASE Monitor
  BY <1>2, MonitorKeepsCover
<1>3. CASE Shrinks /\ UNCHANGED <<pc, arg, mpc, boot, seen, todo, cur>>
  BY <1>3, ShrunkIsCovered DEF Covered, CoveredByScaleUp
<1>4. CASE TimePasses
  BY <1>3, <1>4 DEF TimePasses, Shrinks, Listed, Tracked
<1>5. ASSUME NEW id \in NodeIds, Boot(id) \/ Vanish(id) PROVE Capped' /\ Covered'
  <2>1. Listed(cloud)' \subseteq Listed(cloud) /\ nodes' = nodes
    BY <1>5 DEF Boot, Vanish, Listed, TypeOK
  <2>2. Shrinks
    BY <2>1 DEF Shrinks, Tracked
  <2>3. QED
    BY <1>3, <1>5, <2>2 DEF Boot, Vanish
<1>6. CASE Crash
  <2>1. Known' \subseteq Known /\ Known \subseteq NodeIds
    BY <1>6 DEF Crash, Known, Tracked, Listed, EmptyTable, NoInstance
  <2>2. Capped'
    BY <2>1, IdSets, Constants DEF Capped
  <2>3. Covered'
    BY <1>6 DEF Crash, Covered, CoveredByMonitor, CoveredByScaleUp
  <2>4. QED
    BY <2>2, <2>3
<1>7. CASE UNCHANGED vars
  BY <1>3, <1>7 DEF vars, Shrinks, Listed, Tracked
<1>8. QED
  BY <1>1, <1>2, <1>4, <1>5, <1>6, <1>7 DEF Next

\* At first no instance is known.
LEMMA CoverInit == Init => Capped /\ Covered
<1> SUFFICES ASSUME Init PROVE Capped /\ Covered
  OBVIOUS
<1>1. Known = {}
  BY DEF Init, Known, Tracked, Listed, EmptyTable, NoInstance
<1>2. Capped
  BY <1>1, FS_EmptySet, Constants DEF Capped
<1>3. QED
  BY <1>2 DEF Init, Covered, CoveredByMonitor, CoveredByScaleUp

\* Both hold in every behaviour.
LEMMA CoverAlways == ASSUME Prompt, ConclusiveDestroy PROVE Spec => [](Capped /\ Covered)
BY CoverInit, CoverKept, TypeCorrect, TurnsTaken, AloneAlways, ListingInHandAlways,
   ClearedAlways, PTL DEF Spec

\* What exists is among what is known.
LEMMA CappedInstances == Capped => InstanceCap
<1> SUFFICES ASSUME Capped PROVE InstanceCap
  OBVIOUS
<1>1. Listed(cloud) \subseteq Known /\ Known \subseteq NodeIds
  BY DEF Known, Tracked, Listed
<1>2. QED
  BY <1>1, IdSets, Constants DEF Capped, InstanceCap

\* No more instances exist, and are paid for, than MAX_NODES: neither what
\* another run of the program left behind, nor what vanishes and is replaced,
\* nor an instance whose creation was never answered makes the controller
\* create one too many.
THEOREM InstancesAreCapped ==
  ASSUME Prompt, ConclusiveDestroy PROVE Spec => []InstanceCap
BY CappedInstances, CoverAlways, PTL

-----------------------------------------------------------------------------
(* The nodes that are active have instances *)

\* Instances end by the hand of the orchestrator only, which does not give up
\* on one that boots.
Reliable == Prompt /\ {"vanish", "bootTimeout"} \cap Faults = {}

Active == {"provisioning", "ready", "draining"}

\* Every active node has an instance; a goroutine knows of the node it works
\* on what it has just done to it.
Existing ==
  /\ \A id \in NodeIds : nodes[id] \in Active => cloud[id] # "none"
  /\ mpc \in Listing => Listed(seen) \subseteq Listed(cloud)
  /\ \A p \in Procs :
       /\ pc[p] = "created" => nodes[arg[p]] = Absent /\ cloud[arg[p]] # "none"
       /\ pc[p] = "undo" => nodes[arg[p]] = Absent
       /\ pc[p] = "mark" => nodes[arg[p]] = "draining"
       /\ pc[p] = "destroy" => nodes[arg[p]] \in {"destroying", Absent}

\* Outside of an operation a goroutine makes a node READY that is active, and
\* touches no other node that has an instance, nor an instance.
LEMMA HarmlessAfterOperation ==
  ASSUME Reliable, TypeOK, Cleared, Existing,
         NEW p \in Procs, Goroutine(p), pc[p] \notin Busy
  PROVE  /\ cloud' = cloud
         /\ \A id \in NodeIds :
              \/ nodes'[id] = nodes[id]
              \/ nodes[id] = "provisioning" /\ nodes'[id] = "ready"
              \/ nodes[id] = "destroying" /\ nodes'[id] = Absent
<1>1. "bootTimeout" \notin Faults
  BY DEF Reliable
<1>2. cloud' = cloud
  BY <1>1, AfterOperation DEF Cleared
<1>3. ASSUME NEW id \in NodeIds
      PROVE  \/ nodes'[id] = nodes[id]
             \/ nodes[id] = "provisioning" /\ nodes'[id] = "ready"
             \/ nodes[id] = "destroying" /\ nodes'[id] = Absent
  <2>1. CASE id # arg[p] \/ nodes' = nodes
    BY <2>1, AfterOperation DEF Move, TypeOK, Tables
  <2>2. CASE id = arg[p] /\ pc[p] = "booted" /\ CanMove(nodes, id, "ready") /\ Move(id, "ready")
    <3>1. nodes[id] \in {"provisioning", "ready"} /\ nodes'[id] = "ready"
      BY <2>2 DEF TypeOK, Tables, NodeState, CanMove, validTransitions, Move
    <3>2. QED
      BY <3>1
  <2>3. CASE id = arg[p] /\ pc[p] \in {"purge", "forget"}
    <3>1. cloud[id] = "none"
      BY <1>1, <2>3 DEF Cleared
    <3>2. nodes[id] \in {"destroying", Absent}
      BY <3>1 DEF Existing, TypeOK, Tables, NodeState, Active
    <3>3. nodes'[id] \in {nodes[id], Absent}
      <4>1. CASE pc[p] = "purge"
        <5>1. CanMove(nodes, id, "destroying") => nodes[id] = "destroying"
          BY <3>2 DEF CanMove
        <5>2. QED
          BY <2>3, <4>1, <5>1, AfterOperation DEF Move, TypeOK, Tables
      <4>2. CASE pc[p] = "forget"
        BY <2>3, <4>2, AfterOperation DEF Move, TypeOK, Tables
      <4>3. QED
        BY <2>3, <4>1, <4>2
    <3>4. QED
      BY <3>2, <3>3
  <2>4. QED
    BY <2>1, <2>2, <2>3, AfterOperation
<1>4. QED
  BY <1>2, <1>3

\* Nodes that come to have an instance keep it.
LEMMA GoroutineKeepsExisting ==
  ASSUME Reliable, TypeOK, InTurn, Cleared, Existing, NEW p \in Procs, Goroutine(p)
  PROVE  Existing'
<1> USE DEF TypeOK, Tables, NodeState, NodePCs, Absent, Active
<1>1. UNCHANGED <<mpc, seen>> /\ \A q \in Procs \ {p} : pc'[q] = pc[q] /\ arg'[q] = arg[q]
  BY GoroutineFrame
<1>2. CASE pc[p] \notin Busy
  <2>1. /\ cloud' = cloud
        /\ \A id \in NodeIds :
              \/ nodes'[id] = nodes[id]
              \/ nodes[id] = "provisioning" /\ nodes'[id] = "ready"
              \/ nodes[id] = "destroying" /\ nodes'[id] = Absent
    BY <1>2, HarmlessAfterOperation
  <2>2. \A id \in NodeIds : nodes'[id] \in Active => cloud'[id] # "none"
    BY <2>1 DEF Existing
  <2>3. mpc' \in Listing => Listed(seen)' \subseteq Listed(cloud)'
    BY <1>1, <2>1 DEF Existing, Listed
  <2>4. pc'[p] \notin {"created", "undo", "mark", "destroy"}
    BY <1>2, GoroutineFrame DEF Busy, ScalesUp, ScalesDown
  <2>5. ASSUME NEW q \in Procs
        PROVE  /\ pc'[q] = "created" => nodes'[arg'[q]] = Absent /\ cloud'[arg'[q]] # "none"
               /\ pc'[q] = "undo" => nodes'[arg'[q]] = Absent
               /\ pc'[q] = "mark" => nodes'[arg'[q]] = "draining"
               /\ pc'[q] = "destroy" => nodes'[arg'[q]] \in {"destroying", Absent}
    <3>1. CASE q = p
      BY <2>4, <3>1
    <3>2. CASE q # p
      BY <1>1, <2>1, <3>2 DEF Existing
    <3>3. QED
      BY <3>1, <3>2
  <2>6. QED
    BY <2>2, <2>3, <2>5 DEF Existing
<1>3. CASE pc[p] \in Busy
  <2>1. \A q \in Procs \ {p} : pc'[q] \notin {"created", "undo", "mark", "destroy"}
    BY <1>1, <1>3 DEF InTurn, Busy, ScalesUp, ScalesDown
  <2>2. mpc' \notin Listing
    BY <1>1, <1>3 DEF InTurn, Listing
  <2>3. SUFFICES
          /\ \A id \in NodeIds : nodes'[id] \in Active => cloud'[id] # "none"
          /\ pc'[p] = "created" => nodes'[arg'[p]] = Absent /\ cloud'[arg'[p]] # "none"
          /\ pc'[p] = "undo" => nodes'[arg'[p]] = Absent
          /\ pc'[p] = "mark" => nodes'[arg'[p]] = "draining"
          /\ pc'[p] = "destroy" => nodes'[arg'[p]] \in {"destroying", Absent}
    BY <2>1, <2>2 DEF Existing
  <2> USE DEF Goto, Exit, Move, Remove
  <2>4. CASE CreateGPUNode(p)
    BY <2>4 DEF CreateGPUNode, FreshIds, Existing
  <2>5. CASE TrackNode(p)
    <3>1. nodes[arg[p]] = Absent /\ cloud[arg[p]] # "none"
      BY <2>5 DEF TrackNode, Existing
    <3>2. QED
      BY <2>5, <3>1 DEF TrackNode, Existing
  <2>6. CASE DestroyUntracked(p)
    <3>1. nodes[arg[p]] = Absent
      BY <2>6 DEF DestroyUntracked, Existing
    <3>2. QED
      BY <2>6, <3>1 DEF DestroyUntracked, DestroyCall, Existing
  <2>7. CASE DrainNode(p)
    <3>1. CASE CanMove(nodes, arg[p], "draining")
      <4>1. nodes[arg[p]] \in Active
        BY <3>1, <2>7 DEF DrainNode, ScaleDownMove, CanMove, validTransitions
      <4>2. QED
        BY <2>7, <3>1, <4>1 DEF DrainNode, ScaleDownMove, Existing
    <3>2. CASE ~CanMove(nodes, arg[p], "draining")
      BY <2>7, <3>2 DEF DrainNode, ScaleDownMove, Existing
    <3>3. QED
      BY <3>1, <3>2
  <2>8. CASE MarkDestroying(p)
    BY <2>8 DEF MarkDestroying, ScaleDownMove, Existing
  <2>9. CASE DestroyNode(p)
    <3>1. nodes[arg[p]] \in {"destroying", Absent}
      BY <2>9 DEF DestroyNode, Existing
    <3>2. QED
      BY <2>9, <3>1 DEF DestroyNode, DestroyCall, Existing
  <2>10. CASE RemoveDestroyed(p)
    BY <2>10 DEF RemoveDestroyed, Existing
  <2>11. CASE ScaleUp(p) \/ CreateFails(p) \/ RecordScaleUp(p) \/ ScaleDown(p) \/ RecordScaleDown(p)
    BY <2>11 DEF ScaleUp, CreateFails, RecordScaleUp, ScaleDown, RecordScaleDown, Existing
  <2>12. QED
    BY <1>3, <2>4, <2>5, <2>6, <2>7, <2>8, <2>9, <2>10, <2>11
       DEF Busy, ScalesUp, ScalesDown, Goroutine, WaitForRunning, WaitTimesOut, MarkReady,
           PurgeNode, DestroyPurged, ForgetPurged, ReadTargets, WriteTargets
<1>4. QED
  BY <1>2, <1>3

\* The monitor adopts what its listing names, which exists.
LEMMA MonitorKeepsExisting ==
  ASSUME Reliable, TypeOK, InTurn, ListingInHand, Existing, Monitor PROVE Existing'
<1> USE DEF TypeOK, Tables, NodeState, NodePCs, Absent, Active
<1>1. CASE \E p \in Procs : pc[p] \in Busy
  BY <1>1, BusyMonitor DEF Existing, Listing
<1>2. CASE \A p \in Procs : pc[p] \notin Busy
  <2>1. \A p \in Procs : pc'[p] \notin {"created", "undo", "mark", "destroy"}
    BY <1>2, MonitorFrame DEF Spawn, Goto, Busy, ScalesUp, ScalesDown
  <2>2. cloud' = cloud
    BY DEF Monitor, StartRound, ListManagedNodes, ListFails, ListArrives, LookUp,
       Adopt, Observe, Compare, Prune, Reconciled, MonitorReadsTargets,
       MonitorWritesTargets, GetQueueStats, EvaluateScaleUp, ColdStart, ScaleOut,
       EvaluateScaleDown, ScaleIn
  <2>3. mpc' \in Listing => Listed(seen)' \subseteq Listed(cloud)'
    BY <2>2 DEF Existing, Listing, Listed, Monitor, StartRound, ListManagedNodes,
       ListFails, ListArrives, LookUp, Adopt, Observe, Compare, Prune, Reconciled,
       MonitorReadsTargets, MonitorWritesTargets, GetQueueStats, EvaluateScaleUp,
       ColdStart, ScaleOut, EvaluateScaleDown, ScaleIn, EndRound
  <2>4. \A id \in NodeIds : nodes'[id] \in Active => cloud[id] # "none"
    <3>1. CASE Adopt
      <4>1. cloud[cur] # "none" /\ cur \in NodeIds
        BY <3>1 DEF Adopt, ListingInHand, Existing, Listing, Listed
      <4>2. QED
        BY <3>1, <4>1 DEF Adopt, Move, Existing
    <3>2. CASE Observe
      BY <3>2 DEF Observe, Move, Existing
    <3>3. CASE Prune
      BY <3>3 DEF Prune, Remove, Existing
    <3>4. CASE nodes' = nodes
      BY <3>4 DEF Existing
    <3>5. QED
      BY <3>1, <3>2, <3>3, <3>4
         DEF Monitor, StartRound, ListManagedNodes, ListFails, ListArrives, LookUp,
             Compare, Reconciled, MonitorReadsTargets, MonitorWritesTargets,
             GetQueueStats, EvaluateScaleUp, ColdStart, ScaleOut, EvaluateScaleDown,
             ScaleIn
  <2>5. QED
    BY <2>1, <2>2, <2>3, <2>4 DEF Existing
<1>3. QED
  BY <1>1, <1>2

\* No other step takes an instance away.
LEMMA ExistingKept ==
  ASSUME Reliable
  PROVE  TypeOK /\ InTurn /\ ListingInHand /\ Cleared /\ Existing /\ [Next]_vars => Existing'
<1> SUFFICES ASSUME TypeOK, InTurn, ListingInHand, Cleared, Existing, [Next]_vars
             PROVE  Existing'
  OBVIOUS
<1>1. ASSUME NEW p \in Procs, Goroutine(p) PROVE Existing'
  BY <1>1, GoroutineKeepsExisting
<1>2. CASE Monitor
  BY <1>2, MonitorKeepsExisting
<1>3. CASE UNCHANGED <<nodes, pc, arg, mpc, seen, cloud>>
  BY <1>3 DEF Existing, Listed
<1>4. ASSUME NEW id \in NodeIds, Boot(id) PROVE Existing'
  <2>1. UNCHANGED <<nodes, pc, arg, mpc, seen>> /\ cloud' = [cloud EXCEPT ![id] = "running"]
    BY <1>4 DEF Boot
  <2>2. \A x \in NodeIds : cloud[x] # "none" => cloud'[x] # "none"
    BY <2>1 DEF TypeOK
  <2>3. QED
    BY <2>1, <2>2 DEF Existing, Listed, TypeOK, NodePCs
<1>5. \A id \in NodeIds : ~Vanish(id)
  BY DEF Vanish, Reliable
<1>6. CASE Crash
  BY <1>6 DEF Crash, Existing, Listing, Active, EmptyTable, Absent
<1>7. QED
  BY <1>1, <1>2, <1>3, <1>4, <1>5, <1>6 DEF Next, TimePasses, vars

\* An empty table names nothing that does not exist.
LEMMA ExistingInit == Init => Existing
BY DEF Init, Existing, Listing, Active, EmptyTable, Absent

\* The faults a reliable cloud has none of include those of the weaker assumptions.
LEMMA ReliableIsPrompt == Reliable => Prompt /\ ConclusiveDestroy
BY DEF Reliable, ConclusiveDestroy

\* A tracked node has its instance until a ScaleDown deletes it.
LEMMA ExistingAlways == ASSUME Reliable PROVE Spec => []Existing
BY ExistingInit, ExistingKept, ReliableIsPrompt, TypeCorrect, TurnsTaken, ListingInHandAlways,
   ClearedAlways, PTL DEF Spec

\* The program deletes no instance under a node that takes jobs: of the three
\* calls of DestroyNode one is for a node that is DESTROYING, one for an instance
\* that was never tracked, and the one after a wait that failed meets nothing.
THEOREM DeletesOnceGivenUp == ASSUME Reliable PROVE Spec => DeletedOnceGivenUp
<1>1. TypeOK /\ Cleared /\ Existing /\ [Next]_vars =>
        [\A id \in NodeIds : cloud[id] # "none" /\ cloud'[id] = "none" =>
            nodes[id] \in {"destroying", Absent}]_vars
  <2> SUFFICES ASSUME TypeOK, Cleared, Existing, Next, NEW id \in NodeIds,
                      cloud[id] # "none", cloud'[id] = "none"
               PROVE  nodes[id] \in {"destroying", Absent}
    OBVIOUS
  <2>1. ASSUME NEW p \in Procs, Goroutine(p) PROVE nodes[id] \in {"destroying", Absent}
    <3>1. pc[p] \in Busy
      BY <2>1, HarmlessAfterOperation
    <3>2. (DestroyUntracked(p) \/ DestroyNode(p)) /\ arg[p] = id
      BY <2>1, <3>1 DEF TypeOK, NodePCs, Busy, ScalesUp, ScalesDown, Goroutine, ScaleUp,
         CreateGPUNode, CreateFails, TrackNode, DestroyUntracked, DestroyCall,
         RecordScaleUp, WaitForRunning, WaitTimesOut, MarkReady, PurgeNode,
         DestroyPurged, ForgetPurged, ScaleDown, DrainNode, MarkDestroying,
         ScaleDownMove, DestroyNode, RemoveDestroyed, RecordScaleDown, ReadTargets,
         WriteTargets
    <3>3. QED
      BY <3>2 DEF DestroyUntracked, DestroyNode, Existing
  <2>2. CASE Monitor
    BY <2>2 DEF Monitor, StartRound, ListManagedNodes, ListFails, ListArrives, LookUp,
       Adopt, Observe, Compare, Prune, Reconciled, MonitorReadsTargets,
       MonitorWritesTargets, GetQueueStats, EvaluateScaleUp, ColdStart, ScaleOut,
       EvaluateScaleDown, ScaleIn
  <2>3. CASE TimePasses \/ Crash
    BY <2>3 DEF TimePasses, Crash
  <2>4. ASSUME NEW x \in NodeIds, Boot(x) \/ Vanish(x) PROVE FALSE
    BY <2>4 DEF Boot, Vanish, Reliable, TypeOK
  <2>5. QED
    BY <2>1, <2>2, <2>3, <2>4 DEF Next
<1>2. QED
  BY <1>1, TypeCorrect, ReliableIsPrompt, ClearedAlways, ExistingAlways, PTL
     DEF Spec, DeletedOnceGivenUp

-----------------------------------------------------------------------------
(* The floor *)

ActiveNodes(t) == {id \in NodeIds : t[id] \in Active}

\* The number of active nodes is a number.
LEMMA ActiveCounted ==
  ASSUME NEW t \in Tables PROVE ActiveCount(t) = Cardinality(ActiveNodes(t))
<1>1. Tracked(t) \ NodesByState(t, "destroying") = ActiveNodes(t)
  BY DEF Tables, NodeState, Active, ActiveNodes, Tracked, NodesByState, Absent
<1>2. QED
  BY <1>1 DEF ActiveCount

\* What ScaleDown has found of the floor holds until it gives the node up.
Floor == \A p \in Procs : pc[p] \in {"drain", "mark"} => ActiveCount(nodes) > MinNodes

\* A step of a goroutine keeps the floor.
LEMMA GoroutineKeepsFloor ==
  ASSUME Reliable, TypeOK, InTurn, Cleared, Existing, Floor, NEW p \in Procs, Goroutine(p)
  PROVE  Floor'
<1> SUFFICES ASSUME NEW q \in Procs, pc'[q] \in {"drain", "mark"}
             PROVE  ActiveCount(nodes') > MinNodes
  BY DEF Floor
<1>0. nodes' \in Tables /\ nodes \in Tables
  BY TypeStep DEF TypeOK, Next
<1>1. CASE q # p
  <2>1. pc[q] \in {"drain", "mark"}
    BY <1>1, GoroutineFrame
  <2>2. pc[p] \notin Busy
    BY <1>1, <2>1 DEF InTurn, Busy, ScalesDown
  <2>3. ActiveNodes(nodes') = ActiveNodes(nodes)
    BY <2>2, HarmlessAfterOperation DEF ActiveNodes, Active, Absent
  <2>4. ActiveCount(nodes') = ActiveCount(nodes)
    BY <1>0, <2>3, ActiveCounted
  <2>5. QED
    BY <2>1, <2>4 DEF Floor
<1>2. CASE q = p
  <2>1. (ScaleDown(p) /\ pc'[p] = "drain") \/ (DrainNode(p) /\ pc'[p] = "mark")
    BY <1>2 DEF TypeOK, Goto, Exit, Goroutine, ScaleUp, CreateGPUNode, CreateFails,
       TrackNode, DestroyUntracked, DestroyCall, RecordScaleUp, WaitForRunning, WaitTimesOut,
       MarkReady, PurgeNode, DestroyPurged, ForgetPurged, ScaleDown, DrainNode,
       MarkDestroying, ScaleDownMove, DestroyNode, RemoveDestroyed,
       RecordScaleDown, ReadTargets, WriteTargets
  <2>2. CASE ScaleDown(p) /\ pc'[p] = "drain"
    BY <2>2 DEF ScaleDown, AboveFloor, Exit, TypeOK
  <2>3. CASE DrainNode(p) /\ pc'[p] = "mark"
    <3>1. pc[p] = "drain" /\ CanMove(nodes, arg[p], "draining") /\ Move(arg[p], "draining")
      BY <2>3 DEF DrainNode, ScaleDownMove, Exit, TypeOK
    <3>2. nodes[arg[p]] \in Active /\ arg[p] \in NodeIds
      BY <3>1 DEF CanMove, validTransitions, TypeOK, NodePCs, Tables, NodeState, Active
    <3>3. ActiveNodes(nodes') = ActiveNodes(nodes)
      BY <1>0, <3>1, <3>2 DEF ActiveNodes, Move, Tables, Active
    <3>4. ActiveCount(nodes') = ActiveCount(nodes)
      BY <1>0, <3>3, ActiveCounted
    <3>5. QED
      BY <3>1, <3>4 DEF Floor
  <2>4. QED
    BY <2>1, <2>2, <2>3
<1>3. QED
  BY <1>1, <1>2

\* The floor holds in every behaviour.
LEMMA FloorAlways == ASSUME Reliable PROVE Spec => []Floor
<1>1. Init => Floor
  BY DEF Init, Floor
<1>2. TypeOK /\ InTurn /\ Cleared /\ Existing /\ Floor /\ [Next]_vars => Floor'
  <2> SUFFICES ASSUME TypeOK, InTurn, Cleared, Existing, Floor, [Next]_vars PROVE Floor'
    OBVIOUS
  <2>1. ASSUME NEW p \in Procs, Goroutine(p) PROVE Floor'
    BY <2>1, GoroutineKeepsFloor
  <2>2. CASE Monitor
    <3>1. CASE \E p \in Procs : pc[p] \in Busy
      BY <2>2, <3>1, BusyMonitor DEF Floor
    <3>2. CASE \A p \in Procs : pc[p] \notin Busy
      <4>1. \A p \in Procs : pc'[p] \notin {"drain", "mark"}
        BY <2>2, <3>2, MonitorFrame DEF Spawn, Goto, Busy, ScalesDown, TypeOK
      <4>2. QED
        BY <4>1 DEF Floor
    <3>3. QED
      BY <3>1, <3>2
  <2>3. CASE UNCHANGED <<nodes, pc>>
    BY <2>3 DEF Floor
  <2>4. CASE Crash
    BY <2>4 DEF Crash, Floor
  <2>5. QED
    BY <2>1, <2>2, <2>3, <2>4 DEF Next, TimePasses, Boot, Vanish, vars
<1>3. Reliable => Prompt /\ ConclusiveDestroy
  BY DEF Reliable, ConclusiveDestroy
<1>4. QED
  BY <1>1, <1>2, <1>3, TypeCorrect, TurnsTaken, ClearedAlways, ExistingAlways, PTL DEF Spec

\* The monitor moves no node that is on its way out.
LEMMA MonitorPassesLeavers ==
  ASSUME TypeOK, Monitor
  PROVE  \A id \in NodeIds : nodes'[id] = "destroying" => nodes[id] = "destroying"
BY DEF TypeOK, Tables, Move, Remove, Absent, Monitor, StartRound,
   ListManagedNodes, ListFails, ListArrives, LookUp, Adopt, Observe, Compare,
   Prune, Reconciled, MonitorReadsTargets, MonitorWritesTargets, GetQueueStats,
   EvaluateScaleUp, ColdStart, ScaleOut, EvaluateScaleDown, ScaleIn

\* ScaleDown keeps the floor: between its check and the moment it gives the
\* node up no other node stops being active.
THEOREM KeepsFloor == ASSUME Reliable PROVE Spec => ScaleDownFloor
<1>1. TypeOK /\ InTurn /\ Cleared /\ Existing /\ Floor /\ [Next]_vars =>
        [\A id \in NodeIds : nodes[id] = "draining" /\ nodes'[id] = "destroying" =>
           ActiveCount(nodes') >= MinNodes]_vars
  <2> SUFFICES ASSUME TypeOK, InTurn, Cleared, Existing, Floor, Next, NEW id \in NodeIds,
                      nodes[id] = "draining", nodes'[id] = "destroying"
               PROVE  ActiveCount(nodes') >= MinNodes
    OBVIOUS
  <2>1. ASSUME NEW p \in Procs, Goroutine(p) PROVE ActiveCount(nodes') >= MinNodes
    <3>1. pc[p] \in Busy
      BY <2>1, HarmlessAfterOperation DEF Absent
    <3>2. MarkDestroying(p) /\ arg[p] = id
      BY <2>1, <3>1 DEF TypeOK, Tables, Busy, ScalesUp, ScalesDown, Move, Remove, Absent,
         Goroutine, ScaleUp, CreateGPUNode, CreateFails, TrackNode,
         DestroyUntracked, RecordScaleUp, WaitForRunning, WaitTimesOut,
         MarkReady, PurgeNode, DestroyPurged, ForgetPurged, ScaleDown, DrainNode,
         MarkDestroying, ScaleDownMove, DestroyNode, RemoveDestroyed,
         RecordScaleDown, ReadTargets, WriteTargets
    <3>3. pc[p] = "mark" /\ nodes' = [nodes EXCEPT ![id] = "destroying"]
      BY <3>2 DEF MarkDestroying, ScaleDownMove, Move
    <3>4. nodes \in Tables /\ nodes' \in Tables
      BY <3>3 DEF TypeOK, Tables, NodeState
    <3>5. ActiveNodes(nodes') = ActiveNodes(nodes) \ {id} /\ id \in ActiveNodes(nodes)
      BY <3>3, <3>4 DEF ActiveNodes, Tables, Active
    <3>6. Cardinality(ActiveNodes(nodes')) = Cardinality(ActiveNodes(nodes)) - 1
      BY <3>5, OneMoreId DEF ActiveNodes
    <3>7. ActiveCount(nodes) > MinNodes /\ ActiveCount(nodes') = ActiveCount(nodes) - 1
      BY <3>3, <3>4, <3>6, ActiveCounted DEF Floor
    <3>8. ActiveCount(nodes) \in Nat /\ MinNodes \in Nat
      <4>1. ActiveNodes(nodes) \subseteq NodeIds
        BY DEF ActiveNodes
      <4>2. MinNodes \in Nat
        BY OrchestratorAssumption, Constants
      <4>3. QED
        BY <3>4, <4>1, <4>2, ActiveCounted, IdSets
    <3>9. QED
      BY <3>7, <3>8
  <2>2. ~Monitor
    BY MonitorPassesLeavers
  <2>3. QED
    BY <2>1, <2>2 DEF Next, TimePasses, Boot, Vanish, Crash, EmptyTable, Absent
<1>2. Reliable => Prompt /\ ConclusiveDestroy
  BY DEF Reliable, ConclusiveDestroy
<1>3. QED
  BY <1>1, <1>2, TypeCorrect, TurnsTaken, ClearedAlways, ExistingAlways, FloorAlways, PTL
     DEF Spec, ScaleDownFloor

-----------------------------------------------------------------------------
(* The owner of a DESTROYING node *)

\* A destruction that is sent meets the instance, so that it fails only if the
\* API does.
DestroyMeets == \A p \in Procs : pc[p] = "destroy" => cloud[arg[p]] # "none"

Leaving == {"destroy", "destroyed", "purged", "forget"}

\* A goroutine hands no DESTROYING node over to nobody.
LEMMA GoroutineKeepsLeavers ==
  ASSUME Reliable, "destroyFails" \notin Faults, TypeOK, InTurn, Cleared, Existing,
         DestroyingOwned, DestroyMeets, NEW p \in Procs, Goroutine(p)
  PROVE  DestroyingOwned' /\ DestroyMeets'
<1> USE DEF TypeOK, Tables, NodePCs, Goto, Exit, Move, Remove, Absent
<1>1. \A q \in Procs \ {p} : pc'[q] = pc[q] /\ arg'[q] = arg[q]
  BY GoroutineFrame
<1>2. ASSUME NEW id \in NodeIds, nodes'[id] = "destroying"
      PROVE  \E q \in Procs : pc'[q] \in Leaving /\ arg'[q] = id
  <2>1. CASE MarkDestroying(p) /\ arg[p] = id
    BY <1>2, <2>1 DEF MarkDestroying, ScaleDownMove, Existing, CanMove, validTransitions, Leaving
  <2>2. CASE ~(MarkDestroying(p) /\ arg[p] = id)
    <3>1. nodes[id] = "destroying"
      <4>1. CASE pc[p] \notin Busy
        BY <1>2, <4>1, HarmlessAfterOperation
      <4>2. CASE pc[p] \in Busy
        BY <1>2, <2>2, <4>2 DEF Busy, ScalesUp, ScalesDown,
           Goroutine, ScaleUp, CreateGPUNode, CreateFails, TrackNode,
           DestroyUntracked, RecordScaleUp, WaitForRunning, WaitTimesOut,
           MarkReady, PurgeNode, DestroyPurged, ForgetPurged, ScaleDown, DrainNode,
           MarkDestroying, ScaleDownMove, DestroyNode, RemoveDestroyed,
           RecordScaleDown, ReadTargets, WriteTargets
      <4>3. QED
        BY <4>1, <4>2
    <3>2. PICK q \in Procs : pc[q] \in Leaving /\ arg[q] = id
      BY <3>1 DEF DestroyingOwned, Leaving
    <3>3. CASE q # p
      BY <1>1, <3>2, <3>3
    <3>4. CASE q = p
      <4>1. CASE pc[p] = "destroy"
        <5>1. cloud[arg[p]] # "none" /\ DestroyNode(p)
          BY <4>1 DEF DestroyMeets, Goroutine, ScaleUp, CreateGPUNode, CreateFails, TrackNode,
             DestroyUntracked, RecordScaleUp, WaitForRunning, WaitTimesOut,
             MarkReady, PurgeNode, DestroyPurged, ForgetPurged, ScaleDown, DrainNode,
             MarkDestroying, ScaleDownMove, RemoveDestroyed,
             RecordScaleDown, ReadTargets, WriteTargets
        <5>2. pc'[p] = "destroyed" /\ arg'[p] = arg[p]
          BY <5>1 DEF DestroyNode, DestroyCall
        <5>3. QED
          BY <3>2, <3>4, <5>2 DEF Leaving
      <4>2. CASE pc[p] = "purged"
        <5>1. DestroyPurged(p)
          BY <4>2 DEF Goroutine, ScaleUp, CreateGPUNode, CreateFails, TrackNode,
             DestroyUntracked, RecordScaleUp, WaitForRunning, WaitTimesOut,
             MarkReady, PurgeNode, ForgetPurged, ScaleDown, DrainNode,
             MarkDestroying, ScaleDownMove, DestroyNode, RemoveDestroyed,
             RecordScaleDown, ReadTargets, WriteTargets
        <5>2. pc'[p] = "forget" /\ arg'[p] = arg[p]
          BY <5>1 DEF DestroyPurged, DestroyCall
        <5>3. QED
          BY <3>2, <3>4, <5>2 DEF Leaving
      <4>3. CASE pc[p] \in {"forget", "destroyed"}
        <5>1. ForgetPurged(p) \/ RemoveDestroyed(p)
          BY <4>3 DEF Goroutine, ScaleUp, CreateGPUNode, CreateFails, TrackNode,
             DestroyUntracked, RecordScaleUp, WaitForRunning, WaitTimesOut,
             MarkReady, PurgeNode, DestroyPurged, ScaleDown, DrainNode,
             MarkDestroying, ScaleDownMove, DestroyNode,
             RecordScaleDown, ReadTargets, WriteTargets
        <5>2. QED
          BY <1>2, <3>2, <3>4, <5>1 DEF ForgetPurged, RemoveDestroyed
      <4>4. QED
        BY <3>2, <3>4, <4>1, <4>2, <4>3 DEF Leaving
    <3>5. QED
      BY <3>3, <3>4
  <2>3. QED
    BY <2>1, <2>2
<1>3. ASSUME NEW q \in Procs, pc'[q] = "destroy" PROVE cloud'[arg'[q]] # "none"
  <2>1. CASE q = p
    <3>1. MarkDestroying(p) /\ arg' = arg
      BY <1>3, <2>1 DEF Goroutine, ScaleUp, CreateGPUNode, CreateFails, TrackNode,
         DestroyUntracked, DestroyCall, RecordScaleUp, WaitForRunning, WaitTimesOut,
         MarkReady, PurgeNode, DestroyPurged, ForgetPurged, ScaleDown, DrainNode,
         MarkDestroying, ScaleDownMove, DestroyNode, RemoveDestroyed,
         RecordScaleDown, ReadTargets, WriteTargets
    <3>2. cloud' = cloud /\ nodes[arg[p]] = "draining" /\ arg[p] \in NodeIds
      BY <3>1 DEF MarkDestroying, ScaleDownMove, Existing
    <3>3. QED
      BY <2>1, <3>1, <3>2 DEF Existing, Active
  <2>2. CASE q # p
    <3>1. pc[q] = "destroy" /\ arg'[q] = arg[q]
      BY <1>1, <1>3, <2>2
    <3>2. pc[p] \notin Busy
      BY <2>2, <3>1 DEF InTurn, Busy, ScalesDown
    <3>3. QED
      BY <3>1, <3>2, HarmlessAfterOperation DEF DestroyMeets
  <2>3. QED
    BY <2>1, <2>2
<1>4. QED
  BY <1>2, <1>3 DEF DestroyingOwned, DestroyMeets, Leaving

\* A destruction that is asked for is seen through: while destroying does not
\* fail, no node is left DESTROYING, which would block scaling for good.
THEOREM DestroyingIsOwned ==
  ASSUME Reliable, "destroyFails" \notin Faults PROVE Spec => []DestroyingOwned
<1>1. Init => DestroyingOwned /\ DestroyMeets
  BY DEF Init, EmptyTable, Absent, DestroyingOwned, DestroyMeets
<1>2. TypeOK /\ InTurn /\ Cleared /\ Existing /\ DestroyingOwned /\ DestroyMeets /\ [Next]_vars
        => DestroyingOwned' /\ DestroyMeets'
  <2> SUFFICES ASSUME TypeOK, InTurn, Cleared, Existing, DestroyingOwned, DestroyMeets, [Next]_vars
               PROVE  DestroyingOwned' /\ DestroyMeets'
    OBVIOUS
  <2>1. ASSUME NEW p \in Procs, Goroutine(p) PROVE DestroyingOwned' /\ DestroyMeets'
    BY <2>1, GoroutineKeepsLeavers
  <2>2. CASE Monitor
    <3>1. ASSUME NEW q \in Procs
          PROVE  \/ pc'[q] = pc[q] /\ arg'[q] = arg[q]
                 \/ pc[q] = "idle" /\ pc'[q] \in {"up", "down"}
      BY <2>2, MonitorFrame DEF Spawn, Goto, TypeOK
    <3>2. DestroyingOwned'
      <4> SUFFICES ASSUME NEW id \in NodeIds, nodes'[id] = "destroying"
                   PROVE  \E q \in Procs : pc'[q] \in Leaving /\ arg'[q] = id
        BY DEF DestroyingOwned, Leaving
      <4>1. PICK q \in Procs : pc[q] \in Leaving /\ arg[q] = id
        BY <2>2, MonitorPassesLeavers DEF DestroyingOwned, Leaving
      <4>2. QED
        BY <3>1, <4>1 DEF Leaving
    <3>3. cloud' = cloud
      BY <2>2 DEF Monitor, StartRound, ListManagedNodes, ListFails, ListArrives, LookUp,
         Adopt, Observe, Compare, Prune, Reconciled, MonitorReadsTargets,
         MonitorWritesTargets, GetQueueStats, EvaluateScaleUp, ColdStart, ScaleOut,
         EvaluateScaleDown, ScaleIn
    <3>4. QED
      BY <3>1, <3>2, <3>3 DEF DestroyMeets
  <2>3. CASE UNCHANGED <<nodes, pc, arg, cloud>>
    BY <2>3 DEF DestroyingOwned, DestroyMeets
  <2>4. ASSUME NEW id \in NodeIds, Boot(id) PROVE DestroyingOwned' /\ DestroyMeets'
    BY <2>4 DEF Boot, DestroyingOwned, DestroyMeets, TypeOK, NodePCs
  <2>5. \A id \in NodeIds : ~Vanish(id)
    BY DEF Vanish, Reliable
  <2>6. CASE Crash
    BY <2>6 DEF Crash, DestroyingOwned, DestroyMeets, EmptyTable, Absent
  <2>7. QED
    BY <2>1, <2>2, <2>3, <2>4, <2>5, <2>6 DEF Next, TimePasses, vars
<1>3. Reliable => Prompt /\ ConclusiveDestroy
  BY DEF Reliable, ConclusiveDestroy
<1>4. QED
  BY <1>1, <1>2, <1>3, TypeCorrect, TurnsTaken, ClearedAlways, ExistingAlways, PTL DEF Spec

-----------------------------------------------------------------------------
(* When a scale-down may begin: for whoever uses the queue *)

\* A ScaleUp destroys nothing: AddNode does not refuse what it has created.
NothingUndone == \A p \in Procs : pc[p] # "undo"

\* The invariants so far, together: what holds of the controller whatever
\* happens to the queue, if only its depth stays within its bound.
InControl ==
  /\ TypeOK /\ InTurn /\ Alone /\ CooldownRespected /\ ListingInHand
  /\ Cleared /\ Capped /\ Covered /\ Existing /\ NothingUndone

\* They say among other things that the gates work.
LEMMA InControlMeans == InControl => OneScaleOperation /\ CooldownRespected /\ InstanceCap
BY OneInTurn, CappedInstances DEF InControl

\* They hold at the start ...
LEMMA InControlInit == Init => InControl
<1> SUFFICES ASSUME Init PROVE InControl
  OBVIOUS
<1>1. TypeOK /\ ListingInHand /\ Capped /\ Covered /\ Existing
  BY TypeInit, ListingInHandInit, CoverInit, ExistingInit
<1>2. InTurn /\ Alone /\ CooldownRespected /\ Cleared /\ NothingUndone
  BY DEF Init, InTurn, Busy, ScalesUp, ScalesDown, Alone, CooldownRespected, ScaleOps,
     BeforeRecord, Cleared, Listing, NothingUndone
<1>3. QED
  BY <1>1, <1>2 DEF InControl

\* An instance that the table does not know leaves room in it.
LEMMA TrackingSucceeds ==
  ASSUME TypeOK, Capped, Existing, NEW p \in Procs, TrackNode(p)
  PROVE  pc'[p] = "recordUp"
<1>1. arg[p] \in NodeIds /\ nodes[arg[p]] = Absent /\ cloud[arg[p]] # "none"
  BY DEF TrackNode, TypeOK, NodePCs, Existing
<1>2. /\ Tracked(nodes) \cup {arg[p]} \subseteq Known /\ Known \subseteq NodeIds
      /\ arg[p] \notin Tracked(nodes)
  BY <1>1 DEF Known, Tracked, Listed
<1>3. Cardinality(Tracked(nodes)) < MaxNodes
  <2>1. Cardinality(Tracked(nodes) \cup {arg[p]}) = Cardinality(Tracked(nodes)) + 1
    BY <1>1, <1>2, OneMoreId
  <2>2. Cardinality(Tracked(nodes) \cup {arg[p]}) <= Cardinality(Known)
    BY <1>2, IdSets
  <2>3. /\ Cardinality(Tracked(nodes)) \in Nat /\ Cardinality(Known) \in Nat
        /\ MaxNodes \in Nat
    BY <1>2, IdSets, Constants
  <2>4. QED
    BY <2>1, <2>2, <2>3 DEF Capped
<1>4. QED
  BY <1>1, <1>3 DEF TrackNode, CanAdd, Goto, TypeOK

\* ... and no step breaks them.
LEMMA InControlKept == ASSUME Reliable PROVE InControl /\ [Next]_vars => InControl'
<1> SUFFICES ASSUME InControl, [Next]_vars PROVE InControl'
  OBVIOUS
<1>1. /\ TypeOK /\ InTurn /\ Alone /\ CooldownRespected /\ ListingInHand
      /\ Cleared /\ Capped /\ Covered /\ Existing /\ NothingUndone
  BY DEF InControl
<1>2. TypeOK' /\ InTurn' /\ Alone' /\ CooldownRespected' /\ ListingInHand'
  BY <1>1, TypeStep, ReliableIsPrompt, TurnsKept, AloneKept, ListingInHandKept
<1>3. Cleared' /\ Capped' /\ Covered' /\ Existing'
  BY <1>1, ReliableIsPrompt, ClearedKept, CoverKept, ExistingKept
<1>4. NothingUndone'
  <2> SUFFICES ASSUME NEW q \in Procs, pc'[q] = "undo", pc[q] # "undo" PROVE FALSE
    BY <1>1 DEF NothingUndone
  <2>1. ASSUME NEW p \in Procs, Goroutine(p) PROVE FALSE
    <3>1. q = p
      BY <1>1, <2>1, GoroutineFrame
    <3>2. TrackNode(p)
      BY <1>1, <2>1, <3>1 DEF TypeOK, Goto, Exit, Goroutine, ScaleUp, CreateGPUNode,
         CreateFails, DestroyUntracked, DestroyCall, RecordScaleUp, WaitForRunning,
         WaitTimesOut, MarkReady, PurgeNode, DestroyPurged, ForgetPurged, ScaleDown,
         DrainNode, MarkDestroying, ScaleDownMove, DestroyNode, RemoveDestroyed,
         RecordScaleDown, ReadTargets, WriteTargets
    <3>3. QED
      BY <1>1, <3>1, <3>2, TrackingSucceeds
  <2>2. CASE Monitor
    BY <1>1, <2>2, MonitorFrame DEF Spawn, Goto, TypeOK
  <2>3. QED
    BY <2>1, <2>2 DEF Next, TimePasses, Boot, Vanish, Crash, vars
<1>5. QED
  BY <1>2, <1>3, <1>4 DEF InControl

\* The queue may change at any time.
LEMMA WorkIsFree ==
  ASSUME InControl, UNCHANGED <<table, timers, procs, monitor, tick, cloud, targets>>,
         work' \in 0 .. MaxWork
  PROVE  InControl'
<1>1. TypeOK' /\ NothingUndone'
  BY DEF InControl, TypeOK, NothingUndone
<1>2. InTurn' /\ Alone' /\ CooldownRespected' /\ ListingInHand' /\ Cleared' /\ Existing'
  BY DEF InControl, InTurn, Alone, CooldownRespected, CanScale, Tracked, ListingInHand,
     Listed, Cleared, Existing
<1>3. Capped'
  <2>1. Known' = Known
    BY DEF Known, Tracked, Listed
  <2>2. QED
    BY <2>1 DEF InControl, Capped
<1>4. Covered'
  <2>1. Tracked(nodes)' = Tracked(nodes) /\ Listed(cloud)' = Listed(cloud)
    BY DEF Tracked, Listed
  <2>2. QED
    BY <2>1 DEF InControl, Covered, CoveredByMonitor, CoveredByScaleUp
<1>5. QED
  BY <1>1, <1>2, <1>3, <1>4 DEF InControl

\* The steps of ScaleDown before its instance is gone, and those of the
\* monitor with a sample of the queue in hand.
Emptying == {"down", "drain", "mark", "destroy"}
SampleInHand == {"up", "coldStart", "scaleOut", "down"}

\* No scale-down is under way, and none will follow from the sample in hand.
Watchful ==
  /\ \A p \in Procs : pc[p] \notin Emptying
  /\ mpc \in SampleInHand => pending > 0
  /\ mpc # "scaleIn"

\* While jobs wait, no scale-down begins.
LEMMA WatchfulKept ==
  ASSUME "outage" \notin Faults, InControl, Watchful, work > 0, [Next]_vars
  PROVE  Watchful'
<1>0. TypeOK
  BY DEF InControl
<1>1. ASSUME NEW p \in Procs, Goroutine(p) PROVE Watchful'
  <2>1. UNCHANGED <<mpc, pending>> /\ \A q \in Procs \ {p} : pc'[q] = pc[q]
    BY <1>0, <1>1, GoroutineFrame
  <2>2. pc'[p] \in Emptying => pc[p] \in Emptying
    BY <1>0, <1>1 DEF Emptying, TypeOK, Goto, Exit, Goroutine, ScaleUp, CreateGPUNode,
       CreateFails, TrackNode, DestroyUntracked, DestroyCall, RecordScaleUp,
       WaitForRunning, WaitTimesOut, MarkReady, PurgeNode, DestroyPurged, ForgetPurged,
       ScaleDown, DrainNode, MarkDestroying, ScaleDownMove, DestroyNode,
       RemoveDestroyed, RecordScaleDown, ReadTargets, WriteTargets
  <2>3. QED
    BY <2>1, <2>2 DEF Watchful
<1>2. CASE Monitor
  <2>1. ~ScaleIn
    BY DEF ScaleIn, Watchful
  <2>2. \A q \in Procs : pc'[q] \notin Emptying
    BY <1>0, <1>2, <2>1, MonitorFrame DEF Watchful, Emptying, Spawn, Goto, TypeOK
  <2>3. (mpc' \in SampleInHand => pending' > 0) /\ mpc' # "scaleIn"
    <3>1. CASE GetQueueStats
      BY <3>1 DEF GetQueueStats
    <3>2. CASE EvaluateScaleUp
      <4>1. pending' = pending /\ pending > 0
        BY <3>2 DEF EvaluateScaleUp, Watchful, SampleInHand
      <4>2. mpc' # "scaleIn"
        BY <3>2, Zenon DEF EvaluateScaleUp
      <4>3. QED
        BY <4>1, <4>2
    <3>3. CASE EvaluateScaleDown
      <4>1. pending > 0
        BY <3>3 DEF EvaluateScaleDown, Watchful, SampleInHand
      <4>2. EndRound
        BY <3>3, <4>1 DEF EvaluateScaleDown
      <4>3. QED
        BY <4>2 DEF EndRound, SampleInHand
    <3>4. CASE ~(GetQueueStats \/ EvaluateScaleUp \/ EvaluateScaleDown)
      BY <1>2, <2>1, <3>4 DEF Watchful, SampleInHand, Monitor, StartRound, ListManagedNodes,
         ListFails, ListArrives, LookUp, Adopt, Observe, Compare, Prune, Reconciled,
         MonitorReadsTargets, MonitorWritesTargets, ColdStart, ScaleOut
    <3>5. QED
      BY <3>1, <3>2, <3>3, <3>4
  <2>4. QED
    BY <2>2, <2>3 DEF Watchful
<1>3. CASE UNCHANGED <<pc, mpc, pending>>
  BY <1>3 DEF Watchful
<1>4. CASE Crash
  BY <1>4 DEF Crash, Watchful, Emptying, SampleInHand
<1>5. QED
  BY <1>1, <1>2, <1>3, <1>4 DEF Next, TimePasses, Boot, Vanish, vars

\* An instance ends as the last deed of a ScaleDown, after which the next one
\* is a sample of the queue away.
LEMMA EndsByScaleDown ==
  ASSUME Reliable, InControl, [Next]_vars,
         NEW id \in NodeIds, cloud[id] = "running", cloud'[id] # "running"
  PROVE  /\ ~Watchful /\ Watchful'
         /\ cloud' = [cloud EXCEPT ![id] = "none"]
<1>1. /\ TypeOK /\ InTurn /\ Alone /\ CooldownRespected /\ ListingInHand
      /\ Cleared /\ Capped /\ Covered /\ Existing /\ NothingUndone
  BY DEF InControl
<1>2. PICK p \in Procs : Goroutine(p)
  <2>1. ~Monitor
    BY DEF Monitor, StartRound, ListManagedNodes, ListFails, ListArrives, LookUp,
       Adopt, Observe, Compare, Prune, Reconciled, MonitorReadsTargets,
       MonitorWritesTargets, GetQueueStats, EvaluateScaleUp, ColdStart, ScaleOut,
       EvaluateScaleDown, ScaleIn
  <2>2. ~TimePasses /\ ~Crash /\ ~UNCHANGED vars
    BY DEF TimePasses, Crash, vars
  <2>3. \A x \in NodeIds : ~Boot(x) /\ ~Vanish(x)
    BY <1>1 DEF Boot, Vanish, Reliable, TypeOK
  <2>4. QED
    BY <2>1, <2>2, <2>3 DEF Next
<1>3. DestroyNode(p)
  <2>1. ~DestroyUntracked(p)
    BY <1>1 DEF DestroyUntracked, NothingUndone
  <2>2. ~DestroyPurged(p)
    BY <1>1 DEF DestroyPurged, DestroyCall, Cleared, Reliable
  <2>3. ~CreateGPUNode(p)
    BY <1>1 DEF CreateGPUNode, FreshIds, TypeOK
  <2>4. QED
    BY <1>2, <2>1, <2>2, <2>3 DEF Goroutine, ScaleUp, CreateFails, TrackNode,
       RecordScaleUp, WaitForRunning, WaitTimesOut, MarkReady, PurgeNode, ForgetPurged,
       ScaleDown, DrainNode, MarkDestroying, ScaleDownMove, RemoveDestroyed,
       RecordScaleDown, ReadTargets, WriteTargets
<1>4. pc[p] = "destroy" /\ pc'[p] \notin Emptying
  BY <1>1, <1>3 DEF DestroyNode, DestroyCall, Goto, Exit, Emptying, TypeOK
<1>5. mpc' = "sleep" /\ \A q \in Procs \ {p} : pc'[q] \notin Emptying
  BY <1>1, <1>2, <1>4, GoroutineFrame DEF InTurn, Busy, ScalesUp, ScalesDown, Emptying
<1>6. cloud' = [cloud EXCEPT ![id] = "none"]
  BY <1>1, <1>3 DEF DestroyNode, DestroyCall, TypeOK, NodePCs
<1>7. QED
  BY <1>4, <1>5, <1>6 DEF Watchful, Emptying, SampleInHand

=============================================================================
