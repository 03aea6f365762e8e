---------------------------- MODULE HistoryProofs ----------------------------
(***************************************************************************)
(* The timers of the scaling rules measure what they are meant to measure: *)
(* proofs of the properties of ScalingHistory for every duration and every *)
(* size, where instances end by the hand of the orchestrator only          *)
(* (Reliable) and, for the idle time, the queue is never misreported.      *)
(***************************************************************************)
EXTENDS ScalingHistory, ScalingProofs

USE DEF table, timers, procs, monitor, world, history

\* An outage passes for an empty queue.
Measured == Reliable /\ "outage" \notin Faults

-----------------------------------------------------------------------------
(* The history variables record and do not disturb *)

\* Every behaviour with history variables is one of the controller.
LEMMA HistoryImplements == HSpec => Spec
<1>1. HInit => Init
  BY DEF HInit
<1>2. [HNext]_<<vars, history>> => [Next]_vars
  BY DEF HNext
<1>3. QED
  BY <1>1, <1>2, PTL DEF HSpec, Spec

\* What the invariants below take from ScalingProofs.
Controlled == TypeOK /\ InTurn /\ Cleared /\ Existing

\* They hold in every behaviour with history variables.
LEMMA ControlledAlways == ASSUME Reliable PROVE HSpec => []Controlled
<1>1. Reliable => Prompt /\ ConclusiveDestroy
  BY ReliableIsPrompt
<1>2. TypeOK /\ InTurn /\ Cleared /\ Existing => Controlled
  BY DEF Controlled
<1>3. QED
  BY <1>1, <1>2, HistoryImplements, TypeCorrect, TurnsTaken, ClearedAlways, ExistingAlways, PTL

HistoryTypes == aboveFor \in NIL .. ScaleUpDuration /\ idleFor \in NIL .. IdleCap

\* A run of samples that a tick makes older stays as old as a timer that
\* started later.
LEMMA OlderIsMonotone ==
  ASSUME NEW cap \in Nat, NEW run \in NIL .. cap, NEW age \in NIL .. cap,
         age # NIL => run # NIL /\ run >= age
  PROVE  Older(age, cap) # NIL => Older(run, cap) # NIL /\ Older(run, cap) >= Older(age, cap)
BY DEF Older, NIL

\* The history moves with a tick and with a sample of the queue only.
LEMMA WhenRecorded ==
  ASSUME HNext
  PROVE  \/ /\ TimePasses
            /\ aboveFor' = Older(aboveFor, ScaleUpDuration)
            /\ idleFor' = Older(idleFor, IdleCap)
         \/ /\ ~TimePasses /\ mpc = "queue" /\ mpc' = "up"
            /\ aboveFor' = Sampled(aboveFor, work > ScaleUpThreshold)
            /\ idleFor' = Sampled(idleFor, work = 0)
         \/ ~TimePasses /\ ~(mpc = "queue" /\ mpc' = "up") /\ UNCHANGED history
BY DEF HNext, Recorded

\* The history variables keep their types.
LEMMA HistoryTyped == HSpec => []HistoryTypes
<1>1. HInit => HistoryTypes
  BY Constants DEF HInit, HistoryTypes, NIL
<1>2. HistoryTypes /\ [HNext]_<<vars, history>> => HistoryTypes'
  <2> SUFFICES ASSUME HistoryTypes, [HNext]_<<vars, history>> PROVE HistoryTypes'
    OBVIOUS
  <2>1. CASE UNCHANGED <<vars, history>>
    BY <2>1 DEF HistoryTypes
  <2>2. CASE HNext
    BY <2>2, WhenRecorded, AgeIsCapped, Constants DEF HistoryTypes, Sampled, NIL
  <2>3. QED
    BY <2>1, <2>2
<1>3. QED
  BY <1>1, <1>2, PTL DEF HSpec

\* The sample of the queue is the state of the stream, or nothing at all.
LEMMA SampleIsTrue ==
  ASSUME TypeOK, Next, mpc = "queue", mpc' = "up"
  PROVE  /\ pending' = work \/ (pending' = 0 /\ "outage" \in Faults)
         /\ UNCHANGED <<nodes, pc, upAge, downAge>>
<1>1. \A p \in Procs : ~Goroutine(p)
  BY GoroutineFrame
<1>2. Monitor
  BY <1>1 DEF Next, TimePasses, Boot, Vanish, Crash
<1>3. GetQueueStats
  BY <1>2 DEF Monitor, StartRound, ListManagedNodes, ListFails, ListArrives, LookUp,
     Adopt, Observe, Compare, Prune, Reconciled, MonitorReadsTargets,
     MonitorWritesTargets, GetQueueStats, EvaluateScaleUp, ColdStart, ScaleOut,
     EvaluateScaleDown, ScaleIn
<1>4. QED
  BY <1>3 DEF GetQueueStats

-----------------------------------------------------------------------------
(* Nodes do not stop being active behind the monitor's back *)

\* A count of zero is an empty set.
LEMMA NoneActive == ASSUME TypeOK PROVE ActiveCount(nodes) = 0 <=> ActiveNodes(nodes) = {}
<1>1. ActiveCount(nodes) = Cardinality(ActiveNodes(nodes))
  BY ActiveCounted DEF TypeOK
<1>2. IsFiniteSet(ActiveNodes(nodes))
  BY NodeIdsAssumption, FS_Subset DEF ActiveNodes
<1>3. QED
  BY <1>1, <1>2, FS_EmptySet

\* Only a ScaleDown makes a node inactive; the monitor drops none that is.
LEMMA ActiveStays ==
  ASSUME Reliable, Controlled, Next, ~Crash, \A p \in Procs : pc[p] \notin ScalesDown
  PROVE  ActiveNodes(nodes) \subseteq ActiveNodes(nodes')
<1> USE DEF Controlled, TypeOK, Tables, NodeState, Active, Absent
<1> SUFFICES ASSUME NEW id \in NodeIds, nodes[id] \in Active PROVE nodes'[id] \in Active
  BY DEF ActiveNodes
<1>1. ASSUME NEW p \in Procs, Goroutine(p) PROVE nodes'[id] \in Active
  <2>1. CASE pc[p] \notin Busy
    BY <1>1, <2>1, HarmlessAfterOperation
  <2>2. CASE TrackNode(p)
    BY <2>2 DEF TrackNode, Move
  <2>3. CASE pc[p] \in ScalesUp /\ ~TrackNode(p)
    BY <1>1, <2>3 DEF ScalesUp, Goroutine, ScaleUp, CreateGPUNode, CreateFails,
       DestroyUntracked, RecordScaleUp, WaitForRunning, WaitTimesOut,
       MarkReady, PurgeNode, DestroyPurged, ForgetPurged, ScaleDown, DrainNode,
       MarkDestroying, ScaleDownMove, DestroyNode, RemoveDestroyed,
       RecordScaleDown, ReadTargets, WriteTargets
  <2>4. QED
    BY <2>1, <2>2, <2>3 DEF Busy
<1>2. CASE Monitor
  <2>1. CASE Adopt
    BY <2>1 DEF Adopt, Move
  <2>2. CASE Observe
    BY <2>2 DEF Observe, Move
  <2>3. CASE Prune
    <3>1. id \notin todo
      BY <2>3 DEF Prune, Cleared, Existing
    <3>2. QED
      BY <2>3, <3>1 DEF Prune, Remove
  <2>4. CASE nodes' = nodes
    BY <2>4
  <2>5. QED
    BY <1>2, <2>1, <2>2, <2>3, <2>4
       DEF Monitor, StartRound, ListManagedNodes, ListFails, ListArrives, LookUp,
           Compare, Reconciled, MonitorReadsTargets, MonitorWritesTargets,
           GetQueueStats, EvaluateScaleUp, ColdStart, ScaleOut, EvaluateScaleDown,
           ScaleIn
<1>3. CASE nodes' = nodes
  BY <1>3
<1>4. QED
  BY <1>1, <1>2, <1>3 DEF Next, TimePasses, Boot, Vanish

-----------------------------------------------------------------------------
(* scaleUpSince *)

\* While scaleUpSince runs the queue has been above the threshold at least as
\* long, but for the moment between a sample and its evaluation; and it runs
\* only while a node is active, so that the 0 -> 1 branch, which leaves it
\* alone, never sees it.
UpMeasured ==
  /\ upAge # NIL => ActiveNodes(nodes) # {}
  /\ mpc \in {"coldStart", "down"} /\ pending <= ScaleUpThreshold => upAge = NIL
  /\ mpc = "scaleIn" => upAge = NIL
  /\ \A p \in Procs : pc[p] \in ScalesDown => upAge = NIL
  /\ mpc = "up" /\ pending > ScaleUpThreshold => aboveFor # NIL
  /\ upAge # NIL /\ (mpc = "up" => pending > ScaleUpThreshold)
       => aboveFor # NIL /\ aboveFor >= upAge
  /\ mpc = "scaleOut" =>
       pending > ScaleUpThreshold /\ upAge # NIL /\ upAge >= ScaleUpDuration

\* The steps that neither record nor touch the timers or the monitor.
LEMMA UpKept ==
  ASSUME UpMeasured, UNCHANGED <<upAge, mpc, pending, aboveFor>>,
         upAge # NIL => ActiveNodes(nodes') # {},
         \A p \in Procs : pc'[p] \in ScalesDown => pc[p] \in ScalesDown
  PROVE  UpMeasured'
BY DEF UpMeasured

\* The evaluation of a sample sets and clears scaleUpSince as it must.
LEMMA EvaluationMeasures ==
  ASSUME Controlled, HistoryTypes, UpMeasured, EvaluateScaleUp, UNCHANGED aboveFor
  PROVE  UpMeasured'
<1> DEFINE active    == ActiveCount(nodes)
           cold      == pending > 0 /\ active = 0
           sustained == /\ pending > ScaleUpThreshold
                        /\ ReadyCount(nodes) = active /\ active > 0 /\ active < MaxNodes
<1>1. /\ mpc = "up" /\ UNCHANGED <<nodes, pc, pending>>
      /\ mpc' \in {"coldStart", "scaleOut", "down"}
  BY DEF EvaluateScaleUp
<1>2. /\ cold => mpc' = "coldStart" /\ upAge' = upAge
      /\ ~cold => upAge' = UpTimer(sustained)
      /\ ~cold => mpc' = IF sustained /\ upAge # NIL /\ upAge >= ScaleUpDuration
                         THEN "scaleOut" ELSE "down"
  BY Zenon DEF EvaluateScaleUp
<1> HIDE DEF cold, sustained
<1>3. \A p \in Procs : pc[p] \notin ScalesDown
  BY <1>1 DEF Controlled, InTurn, Busy
<1>4. /\ pending \in Nat /\ ScaleUpThreshold \in Nat /\ upAge \in Int /\ aboveFor \in Int
      /\ upAge \in NIL .. ScaleUpDuration /\ aboveFor \in NIL .. ScaleUpDuration
  BY Constants DEF Controlled, TypeOK, HistoryTypes, NIL
<1>5. active = 0 <=> ActiveNodes(nodes) = {}
  BY NoneActive DEF Controlled
<1>6. pending > ScaleUpThreshold => aboveFor # NIL
  BY <1>1 DEF UpMeasured
<1>7. upAge # NIL /\ pending > ScaleUpThreshold => aboveFor >= upAge
  BY <1>1 DEF UpMeasured
<1>8. CASE cold
  <2>1. upAge' = NIL /\ mpc' = "coldStart"
    BY <1>2, <1>5, <1>8 DEF UpMeasured, cold
  <2>2. QED
    BY <1>1, <1>3, <2>1 DEF UpMeasured
<1>9. CASE ~cold
  <2>1. sustained => pending > ScaleUpThreshold /\ ActiveNodes(nodes) # {}
    BY <1>5 DEF sustained
  <2>2. CASE sustained
    <3>1. upAge' = IF upAge = NIL THEN 0 ELSE upAge
      BY <1>2, <1>9, <2>2 DEF UpTimer
    <3>2. mpc' = "scaleOut" => upAge # NIL /\ upAge >= ScaleUpDuration
      BY <1>2, <1>9
    <3>3. upAge' # NIL /\ aboveFor # NIL /\ aboveFor >= upAge'
      BY <1>4, <1>6, <1>7, <2>1, <2>2, <3>1 DEF NIL
    <3>4. QED
      BY <1>1, <1>2, <1>3, <1>4, <1>9, <2>1, <2>2, <3>1, <3>2, <3>3 DEF UpMeasured
  <2>3. CASE ~sustained
    <3>1. mpc' = "down" /\ upAge' = IF pending <= ScaleUpThreshold THEN NIL ELSE upAge
      BY <1>2, <1>9, <2>3 DEF UpTimer
    <3>2. QED
      BY <1>1, <1>3, <1>4, <1>6, <1>7, <3>1 DEF UpMeasured
  <2>4. QED
    BY <2>2, <2>3
<1>10. QED
  BY <1>8, <1>9

\* The monitor keeps the relation between the timer and the overload.
LEMMA UpKeptByMonitor ==
  ASSUME Reliable, Controlled, HistoryTypes, UpMeasured, Monitor, HNext, ~TimePasses
  PROVE  UpMeasured'
<1>1. /\ pending \in Nat /\ ScaleUpThreshold \in Nat /\ work \in Nat
      /\ upAge \in NIL .. ScaleUpDuration /\ aboveFor \in NIL .. ScaleUpDuration
  BY Constants DEF Controlled, TypeOK, HistoryTypes
<1>2. CASE mpc = "queue" /\ mpc' = "up"
  <2>1. (pending' = work \/ pending' = 0) /\ UNCHANGED <<nodes, pc, upAge>>
    BY <1>2, SampleIsTrue DEF Controlled, HNext
  <2>2. aboveFor' = Sampled(aboveFor, work > ScaleUpThreshold)
    BY <1>2, WhenRecorded
  <2>3. work > ScaleUpThreshold => aboveFor' # NIL
    BY <1>1, <2>2 DEF Sampled, NIL
  <2>4. upAge # NIL /\ work > ScaleUpThreshold => aboveFor' = aboveFor /\ aboveFor >= upAge
    BY <1>2, <2>2 DEF Sampled, UpMeasured
  <2>5. pending' > ScaleUpThreshold => work > ScaleUpThreshold
    BY <1>1, <2>1, Constants
  <2>6. QED
    BY <1>2, <2>1, <2>3, <2>4, <2>5 DEF UpMeasured
<1>3. CASE ~(mpc = "queue" /\ mpc' = "up")
  <2>1. aboveFor' = aboveFor
    BY <1>3, WhenRecorded
  <2>2. CASE EvaluateScaleUp
    BY <2>1, <2>2, EvaluationMeasures
  <2>3. CASE ColdStart \/ ScaleOut
    <3>1. /\ nodes' = nodes /\ pending' = pending /\ mpc' = "down"
          /\ mpc \in {"coldStart", "scaleOut"}
          /\ upAge' = upAge \/ upAge' = NIL
      BY <2>3 DEF ColdStart, ScaleOut
    <3>2. \A p \in Procs : pc[p] \notin ScalesDown
      BY <3>1 DEF Controlled, InTurn, Busy
    <3>3. \A p \in Procs : pc'[p] \notin ScalesDown
      BY <2>3, <3>2, MonitorFrame DEF Controlled, TypeOK, Spawn, Goto, ColdStart, ScaleOut, ScaleIn, ScalesDown
    <3>4. mpc = "scaleOut" /\ upAge' # NIL => pending > ScaleUpThreshold
      BY <1>1, <3>1 DEF UpMeasured
    <3>5. QED
      BY <1>1, <2>1, <3>1, <3>3, <3>4 DEF UpMeasured
  <2>4. CASE EvaluateScaleDown
    <3>1. mpc = "down" /\ UNCHANGED <<nodes, pc, upAge>> /\ mpc' \in {"sleep", "scaleIn"}
      BY <2>4 DEF EvaluateScaleDown, EndRound
    <3>2. mpc' = "scaleIn" => ~(pending > 0)
      BY <2>4 DEF EvaluateScaleDown, EndRound
    <3>3. mpc' = "scaleIn" => upAge = NIL
      BY <1>1, <3>1, <3>2 DEF UpMeasured
    <3>4. QED
      BY <2>1, <3>1, <3>3 DEF UpMeasured
  <2>5. CASE ScaleIn
    <3>1. mpc' = "sleep" /\ UNCHANGED <<nodes, upAge>>
      BY <2>5 DEF ScaleIn, EndRound
    <3>2. ASSUME NEW p \in Procs, pc'[p] \in ScalesDown PROVE upAge = NIL
      BY <2>5, <3>2 DEF ScaleIn, UpMeasured
    <3>3. QED
      BY <2>1, <2>5, <3>1, <3>2 DEF ScaleIn, UpMeasured
  <2>6. CASE ~EvaluateScaleUp /\ ~ColdStart /\ ~ScaleOut /\ ~EvaluateScaleDown /\ ~ScaleIn
    <3>1. UNCHANGED <<upAge, pc>>
      BY <2>6 DEF Monitor, StartRound, ListManagedNodes, ListFails, ListArrives, LookUp,
         Adopt, Observe, Compare, Prune, Reconciled, MonitorReadsTargets,
         MonitorWritesTargets, GetQueueStats
    <3>2. mpc # "up" /\ mpc' \notin {"up", "coldStart", "down", "scaleIn", "scaleOut"}
      BY <1>3, <2>6 DEF Monitor, StartRound, ListManagedNodes, ListFails, ListArrives, LookUp,
         Adopt, Observe, Compare, Prune, Reconciled, MonitorReadsTargets,
         MonitorWritesTargets, GetQueueStats
    <3>3. upAge # NIL => ActiveNodes(nodes') # {}
      <4>1. Crash => upAge' = NIL
        BY DEF Crash
      <4>2. SUFFICES ASSUME upAge # NIL PROVE ActiveNodes(nodes') # {}
        OBVIOUS
      <4>3. \A p \in Procs : pc[p] \notin ScalesDown
        BY <4>2 DEF UpMeasured
      <4>4. ActiveNodes(nodes) \subseteq ActiveNodes(nodes')
        BY <3>1, <4>1, <4>2, <4>3, ActiveStays DEF HNext
      <4>5. QED
        BY <4>2, <4>4 DEF UpMeasured
    <3>4. QED
      BY <2>1, <3>1, <3>2, <3>3 DEF UpMeasured
  <2>7. QED
    BY <2>2, <2>3, <2>4, <2>5, <2>6
<1>4. QED
  BY <1>2, <1>3

\* A goroutine leaves the history alone, and the monitor's variables.
LEMMA GoroutineUnrecorded ==
  ASSUME TypeOK, HNext, ~TimePasses, NEW p \in Procs, Goroutine(p)
  PROVE  UNCHANGED <<upAge, downAge, mpc, pending, history>>
<1>1. UNCHANGED <<upAge, downAge, mpc, pending>>
  BY GoroutineFrame
<1>2. ~(mpc = "queue" /\ mpc' = "up")
  BY <1>1
<1>3. QED
  BY <1>1, <1>2, WhenRecorded

\* Every step keeps it.
LEMMA UpStep ==
  ASSUME Reliable
  PROVE  Controlled /\ HistoryTypes /\ UpMeasured /\ [HNext]_<<vars, history>> => UpMeasured'
<1> SUFFICES ASSUME Controlled, HistoryTypes, UpMeasured, [HNext]_<<vars, history>>
             PROVE  UpMeasured'
  OBVIOUS
<1>1. CASE HNext /\ TimePasses
  <2>1. /\ mpc = "sleep" \/ mpc \in {"list", "listed"}
        /\ UNCHANGED <<nodes, pc, mpc, pending>>
        /\ upAge' = Older(upAge, ScaleUpDuration)
        /\ aboveFor' = Older(aboveFor, ScaleUpDuration)
    BY <1>1, WhenRecorded DEF TimePasses, MonitorPatient
  <2>2. /\ upAge \in NIL .. ScaleUpDuration /\ aboveFor \in NIL .. ScaleUpDuration
        /\ upAge # NIL => aboveFor # NIL /\ aboveFor >= upAge
    BY <2>1 DEF Controlled, TypeOK, HistoryTypes, UpMeasured
  <2>3. upAge' # NIL => aboveFor' # NIL /\ aboveFor' >= upAge'
    BY <2>1, <2>2, OlderIsMonotone, Constants
  <2>4. upAge = NIL => upAge' = NIL
    BY <2>1 DEF Older
  <2>5. QED
    BY <2>1, <2>3, <2>4 DEF UpMeasured
<1>2. ASSUME HNext, ~TimePasses, NEW p \in Procs, Goroutine(p) PROVE UpMeasured'
  <2>1. UNCHANGED <<upAge, mpc, pending, aboveFor>>
    BY <1>2, GoroutineUnrecorded DEF Controlled
  <2>2. \A q \in Procs : pc'[q] \in ScalesDown => pc[q] \in ScalesDown
    BY <1>2, GoroutineFrame DEF Controlled
  <2>3. ASSUME upAge # NIL PROVE ActiveNodes(nodes') # {}
    <3>1. \A q \in Procs : pc[q] \notin ScalesDown
      BY <2>3 DEF UpMeasured
    <3>2. Crash => upAge' = NIL
      BY DEF Crash
    <3>3. ActiveNodes(nodes) \subseteq ActiveNodes(nodes')
      BY <1>2, <2>1, <2>3, <3>1, <3>2, ActiveStays DEF HNext
    <3>4. QED
      BY <2>3, <3>3 DEF UpMeasured
  <2>4. QED
    BY <2>1, <2>2, <2>3, UpKept
<1>3. CASE HNext /\ ~TimePasses /\ Monitor
  BY <1>3, UpKeptByMonitor
<1>4. ASSUME HNext, ~TimePasses, NEW id \in NodeIds, Boot(id) \/ Vanish(id) PROVE UpMeasured'
  <2>1. UNCHANGED <<nodes, pc, upAge, mpc, pending>>
    BY <1>4 DEF Boot, Vanish
  <2>2. aboveFor' = aboveFor
    BY <1>4, <2>1, WhenRecorded
  <2>3. QED
    BY <2>1, <2>2 DEF UpMeasured
<1>5. CASE HNext /\ Crash
  BY <1>5 DEF Crash, UpMeasured, ScalesDown
<1>6. CASE UNCHANGED <<vars, history>>
  BY <1>6 DEF vars, UpMeasured
<1>7. QED
  BY <1>1, <1>2, <1>3, <1>4, <1>5, <1>6 DEF HNext, Next

\* "pending_work > SCALE_UP_THRESHOLD continuously for SCALE_UP_DURATION": the
\* 1 -> 2 decision is taken only when every sample of that long has been above
\* the threshold, whatever the timer has been through.
THEOREM ScalesOutWhenSustained == ASSUME Reliable PROVE HSpec => []ScaleOutSustained
<1>1. HInit => UpMeasured
  BY DEF HInit, Init, UpMeasured, ScalesDown
<1>2. Controlled /\ HistoryTypes /\ UpMeasured => ScaleOutSustained
  <2> SUFFICES ASSUME Controlled, HistoryTypes, UpMeasured, mpc = "scaleOut"
               PROVE  aboveFor # NIL /\ aboveFor >= ScaleUpDuration
    BY DEF ScaleOutSustained
  <2>1. upAge # NIL /\ upAge >= ScaleUpDuration /\ aboveFor # NIL /\ aboveFor >= upAge
    BY DEF UpMeasured
  <2>2. upAge \in Int /\ aboveFor \in Int /\ ScaleUpDuration \in Int
    BY Constants DEF Controlled, TypeOK, HistoryTypes, NIL
  <2>3. QED
    BY <2>1, <2>2
<1>3. QED
  BY <1>1, <1>2, UpStep, ControlledAlways, HistoryTyped, PTL DEF HSpec

-----------------------------------------------------------------------------
(* scaleDownSince *)

\* While scaleDownSince runs the stream has been empty at least as long, but
\* for the moment between a sample and its evaluation; the target of a
\* ScaleDown is picked when that is the window asked for, of the nodes there
\* still are when it starts.
DownMeasured ==
  /\ mpc \in {"up", "coldStart", "scaleOut", "down"} => (pending = 0 => idleFor # NIL)
  /\ downAge # NIL /\ (mpc \in {"up", "coldStart", "scaleOut", "down"} => pending = 0)
       => idleFor # NIL /\ idleFor >= downAge
  /\ mpc = "scaleIn" => downAge # NIL /\ downAge >= IdleWindow(ActiveCount(nodes))

\* As long as the monitor is about to start a ScaleDown no goroutine makes a
\* node inactive or adds one.
LEMMA WindowStays ==
  ASSUME Reliable, Controlled, mpc = "scaleIn", NEW p \in Procs, Goroutine(p)
  PROVE  ActiveCount(nodes') = ActiveCount(nodes)
<1>1. pc[p] \notin Busy
  BY DEF Controlled, InTurn
<1>2. nodes \in Tables /\ nodes' \in Tables
  BY GoroutineTypes DEF Controlled, TypeOK
<1>3. ActiveNodes(nodes') = ActiveNodes(nodes)
  BY <1>1, HarmlessAfterOperation DEF Controlled, ActiveNodes, Active, Absent
<1>4. QED
  BY <1>2, <1>3, ActiveCounted

\* The monitor keeps the relation between the timer and the idle time.
LEMMA DownKeptByMonitor ==
  ASSUME Measured, Controlled, HistoryTypes, DownMeasured, Monitor, HNext, ~TimePasses
  PROVE  DownMeasured'
<1>1. /\ pending \in Nat /\ work \in Nat
      /\ downAge \in NIL .. IdleCap /\ idleFor \in NIL .. IdleCap
  BY Constants DEF Controlled, TypeOK, HistoryTypes
<1>2. CASE mpc = "queue" /\ mpc' = "up"
  <2>1. pending' = work /\ UNCHANGED downAge
    BY <1>2, SampleIsTrue DEF Controlled, HNext, Measured
  <2>2. idleFor' = Sampled(idleFor, work = 0)
    BY <1>2, WhenRecorded
  <2>3. work = 0 => idleFor' # NIL
    BY <1>1, <2>2 DEF Sampled, NIL
  <2>4. downAge # NIL /\ work = 0 => idleFor' = idleFor /\ idleFor >= downAge
    BY <1>2, <2>2 DEF Sampled, DownMeasured
  <2>5. QED
    BY <1>2, <2>1, <2>3, <2>4 DEF DownMeasured
<1>3. CASE ~(mpc = "queue" /\ mpc' = "up")
  <2>1. idleFor' = idleFor
    BY <1>3, WhenRecorded DEF history
  <2>2. CASE EvaluateScaleDown
    <3>1. mpc = "down" /\ mpc' \in {"sleep", "scaleIn"} /\ nodes' = nodes
      BY <2>2 DEF EvaluateScaleDown, EndRound
    <3>2. \/ downAge' = NIL /\ mpc' = "sleep"
          \/ /\ ~(pending > 0) /\ downAge' = IF downAge = NIL THEN 0 ELSE downAge
             /\ mpc' = "scaleIn" => downAge' >= IdleWindow(ActiveCount(nodes))
      BY <2>2 DEF EvaluateScaleDown, EndRound
    <3>3. CASE downAge' = NIL /\ mpc' = "sleep"
      BY <3>3 DEF DownMeasured
    <3>4. CASE /\ ~(pending > 0) /\ downAge' = IF downAge = NIL THEN 0 ELSE downAge
               /\ mpc' = "scaleIn" => downAge' >= IdleWindow(ActiveCount(nodes))
      <4>1. idleFor # NIL /\ (downAge # NIL => idleFor >= downAge)
        BY <1>1, <3>1, <3>4 DEF DownMeasured
      <4>2. downAge' # NIL /\ idleFor >= downAge'
        BY <1>1, <3>4, <4>1 DEF NIL
      <4>3. QED
        BY <2>1, <3>1, <3>4, <4>1, <4>2 DEF DownMeasured
    <3>5. QED
      BY <3>2, <3>3, <3>4
  <2>3. CASE ScaleIn
    BY <2>1, <2>3 DEF ScaleIn, EndRound, DownMeasured
  <2>4. CASE ColdStart \/ ScaleOut \/ EvaluateScaleUp
    <3>1. /\ mpc \in {"up", "coldStart", "scaleOut"} /\ UNCHANGED <<pending, downAge>>
          /\ mpc' \in {"coldStart", "scaleOut", "down"}
      BY <2>4 DEF ColdStart, ScaleOut, EvaluateScaleUp
    <3>2. QED
      BY <2>1, <3>1 DEF DownMeasured
  <2>5. CASE ~EvaluateScaleUp /\ ~ColdStart /\ ~ScaleOut /\ ~EvaluateScaleDown /\ ~ScaleIn
    <3>1. /\ UNCHANGED downAge /\ mpc \notin {"up", "coldStart", "scaleOut", "down"}
          /\ mpc' \notin {"up", "coldStart", "scaleOut", "down", "scaleIn"}
      BY <1>3, <2>5 DEF Monitor, StartRound, ListManagedNodes, ListFails, ListArrives, LookUp,
         Adopt, Observe, Compare, Prune, Reconciled, MonitorReadsTargets,
         MonitorWritesTargets, GetQueueStats
    <3>2. QED
      BY <2>1, <3>1 DEF DownMeasured
  <2>6. QED
    BY <2>2, <2>3, <2>4, <2>5
<1>4. QED
  BY <1>2, <1>3

\* Every step keeps it.
LEMMA DownStep ==
  ASSUME Measured
  PROVE  Controlled /\ HistoryTypes /\ DownMeasured /\ [HNext]_<<vars, history>> => DownMeasured'
<1> SUFFICES ASSUME Controlled, HistoryTypes, DownMeasured, [HNext]_<<vars, history>>
             PROVE  DownMeasured'
  OBVIOUS
<1>1. CASE HNext /\ TimePasses
  <2>1. /\ mpc \in {"sleep", "list", "listed"} /\ mpc' = mpc
        /\ downAge' = Older(downAge, IdleCap) /\ idleFor' = Older(idleFor, IdleCap)
    BY <1>1, WhenRecorded DEF TimePasses, MonitorPatient
  <2>2. /\ downAge \in NIL .. IdleCap /\ idleFor \in NIL .. IdleCap
        /\ downAge # NIL => idleFor # NIL /\ idleFor >= downAge
    BY <2>1 DEF Controlled, TypeOK, HistoryTypes, DownMeasured
  <2>3. downAge' # NIL => idleFor' # NIL /\ idleFor' >= downAge'
    BY <2>1, <2>2, OlderIsMonotone, Constants
  <2>4. QED
    BY <2>1, <2>3 DEF DownMeasured
<1>2. ASSUME HNext, ~TimePasses, NEW p \in Procs, Goroutine(p) PROVE DownMeasured'
  <2>1. UNCHANGED <<downAge, mpc, pending, idleFor>>
    BY <1>2, GoroutineUnrecorded DEF Controlled
  <2>2. mpc = "scaleIn" => ActiveCount(nodes') = ActiveCount(nodes)
    BY <1>2, WindowStays DEF Measured
  <2>3. QED
    BY <2>1, <2>2 DEF DownMeasured
<1>3. CASE HNext /\ ~TimePasses /\ Monitor
  BY <1>3, DownKeptByMonitor
<1>4. ASSUME HNext, ~TimePasses, NEW id \in NodeIds, Boot(id) \/ Vanish(id) PROVE DownMeasured'
  <2>1. UNCHANGED <<nodes, downAge, mpc, pending>>
    BY <1>4 DEF Boot, Vanish
  <2>2. idleFor' = idleFor
    BY <1>4, <2>1, WhenRecorded
  <2>3. QED
    BY <2>1, <2>2 DEF DownMeasured
<1>5. CASE HNext /\ Crash
  BY <1>5 DEF Crash, DownMeasured
<1>6. CASE UNCHANGED <<vars, history>>
  BY <1>6 DEF vars, DownMeasured
<1>7. QED
  BY <1>1, <1>2, <1>3, <1>4, <1>5, <1>6 DEF HNext, Next

\* "pending_work == 0 for at least" the idle window: a node is picked for
\* scale-down only when every sample of the window that applies to the nodes
\* there are has found the stream empty.
THEOREM ScalesInWhenIdle == ASSUME Measured PROVE HSpec => []ScaleInIdle
<1>1. HInit => DownMeasured
  BY DEF HInit, Init, DownMeasured
<1>2. Measured => Reliable
  BY DEF Measured
<1>3. Controlled /\ HistoryTypes /\ DownMeasured => ScaleInIdle
  <2> SUFFICES ASSUME Controlled, HistoryTypes, DownMeasured, mpc = "scaleIn"
               PROVE  idleFor # NIL /\ idleFor >= IdleWindow(ActiveCount(nodes))
    BY DEF ScaleInIdle, IdleWindow
  <2>1. /\ downAge # NIL /\ downAge >= IdleWindow(ActiveCount(nodes))
        /\ idleFor # NIL /\ idleFor >= downAge
    BY DEF DownMeasured
  <2>2. downAge \in Int /\ idleFor \in Int /\ IdleWindow(ActiveCount(nodes)) \in Int
    BY Constants DEF Controlled, TypeOK, HistoryTypes, NIL, IdleWindow
  <2>3. QED
    BY <2>1, <2>2
<1>4. QED
  BY <1>1, <1>2, <1>3, DownStep, ControlledAlways, HistoryTyped, PTL DEF HSpec

=============================================================================
