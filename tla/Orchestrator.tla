---------------------------- MODULE Orchestrator ----------------------------
(***************************************************************************)
(* The scaling controller (orchestrator/orchestrator.go, scaler.go,        *)
(* discovery.go) together with the Linode API it drives (linode.go).       *)
(*                                                                         *)
(* Processes: the monitor loop, which reconciles the node table with the   *)
(* cloud, samples the queue and evaluates scaling; and the goroutines it   *)
(* starts with "go": ScaleUp (which goes on as waitForNodeReady) and       *)
(* ScaleDown.  A step is the code between two points where another         *)
(* goroutine can interfere: a call of a mutex-protected method, an API     *)
(* call, a read or a write of the targets file.                            *)
(*                                                                         *)
(* Time is counted in ticks of MonitorInterval.  Clocks are ages, capped   *)
(* at the duration they are compared with.                                 *)
(***************************************************************************)
EXTENDS NodeTable

CONSTANTS
  MinNodes, ScaleUpThreshold,         \* Config, as in the code
  ScaleUpDuration, CooldownDuration,  \* Config, in ticks
  ScaleDownIdleDuration, ScaleToZeroIdleDuration,
  MaxWork,  \* bound: the queue's depth
  Procs,    \* bound: slots for goroutines that are alive together
  Faults    \* which environment faults may happen, see FaultKinds

FaultKinds ==
  { "slowCalls",     \* an API call may last longer than a tick
    "listFails", "createFails", "destroyFails",
    "createLost",    \* the instance is made, the answer to its creation lost
    "bootTimeout",   \* WaitForRunning may give up on any instance
    "noAddress",     \* the API may answer without an IPv4 of the instance
    "vanish",        \* an instance disappears from the cloud by itself
    "outage",        \* both JetStream queries of getQueueStats fail
    "crash" }        \* the orchestrator stops and starts again

ASSUME OrchestratorAssumption ==
  /\ MinNodes \in 0 .. MaxNodes  \* loadConfig refuses anything else
  /\ {ScaleUpThreshold, ScaleUpDuration, CooldownDuration, MaxWork,
      ScaleDownIdleDuration, ScaleToZeroIdleDuration} \subseteq Nat
  /\ Faults \subseteq FaultKinds

VARIABLES
  nodes,       \* NodeManager.nodes: id -> state
  addressed,   \* the tracked ids whose IPv4 is recorded
  sinceEvent,  \* age of lastScaleEvent; its zero value is a full cooldown
  upAge,       \* age of scaleUpSince, NIL when it is nil
  downAge,     \* age of scaleDownSince, NIL when it is nil
  pc,          \* goroutine slot -> its next step
  arg,         \* goroutine slot -> the instance it works on, 0 for none
  snap,        \* goroutine slot -> READY nodes it is about to write
  mpc,         \* the monitor loop's next step
  boot,        \* Run's startup round is going on, before monitorLoop
  seen,        \* answer of ListManagedNodes: id -> status
  todo,        \* ids left in the reconciliation loop that is running
  changed,     \* reconcileWithCloud's changed
  cur,         \* the id the monitor handles, or the scale-down target
  pending,     \* QueueStats.PendingWork() of this round
  msnap,       \* READY nodes the monitor is about to write
  tick,        \* ticker.C holds a tick
  cloud,       \* Linode: id -> status of the instance
  targets,     \* ids listed in the Prometheus targets file
  work         \* undelivered plus unacknowledged jobs in the stream

table   == <<nodes, addressed>>
timers  == <<sinceEvent, upAge, downAge>>
procs   == <<pc, arg, snap>>
monitor == <<mpc, boot, seen, todo, changed, cur, pending, msnap>>
world   == <<tick, cloud, targets, work>>
vars    == <<table, timers, procs, monitor, world>>

NIL    == -1
NoNode == 0

Status == {"none", "booting", "running"}
NoInstance == [id \in NodeIds |-> "none"]
Listed(listing) == {id \in NodeIds : listing[id] # "none"}

IdleCap == ScaleDownIdleDuration + ScaleToZeroIdleDuration

Older(age, cap) == IF age = NIL THEN NIL ELSE IF age < cap THEN age + 1 ELSE cap

CanScale == sinceEvent >= CooldownDuration

\* Wrong: gives up the last node the floor asks for (ScaleDownFloor).
AboveFloorOffByOne == ActiveCount(nodes) >= MinNodes

\* The floor, which EvaluateScaleDown and ScaleDown both look at.
AboveFloor == ActiveCount(nodes) > MinNodes

\* Wrong: the last node goes as soon as any other (ScaleInIdle).
IdleWindowOffByOne(active) ==
  IF active >= 1 THEN ScaleDownIdleDuration ELSE ScaleToZeroIdleDuration

\* The idle window required of the queue before a node is given up.
IdleWindow(active) ==
  IF active > 1 THEN ScaleDownIdleDuration ELSE ScaleToZeroIdleDuration

\* WriteTargetsFile skips a READY node whose address is not known.
ReadyTargets == NodesByState(nodes, "ready") \cap addressed

\* Whether the API's answer about an instance has an IPv4.
IPv4Answers == {TRUE, "noAddress" \notin Faults}

\* Ids the Linode API may give to a new instance: those nothing refers to.
\* (Real ids only grow; the model reuses an id once every trace of it is gone.)
FreshIds ==
  { id \in NodeIds :
      /\ nodes[id] = Absent /\ cloud[id] = "none" /\ seen[id] = "none"
      /\ id \notin todo \cup msnap \cup targets \cup {cur}
      /\ \A p \in Procs : arg[p] # id /\ id \notin snap[p] }

Init ==
  /\ nodes = EmptyTable /\ addressed = {}
  /\ sinceEvent = CooldownDuration /\ upAge = NIL /\ downAge = NIL
  /\ pc = [p \in Procs |-> "idle"]
  /\ arg = [p \in Procs |-> NoNode]
  /\ snap = [p \in Procs |-> {}]
  /\ mpc = "list" /\ boot = TRUE /\ seen = NoInstance /\ todo = {}
  /\ changed = FALSE /\ cur = NoNode /\ pending = 0 /\ msnap = {}
  /\ tick = FALSE /\ cloud = NoInstance /\ targets = {} /\ work = 0

-----------------------------------------------------------------------------
(* NodeManager, as the goroutines call it *)

Remove(id) ==
  /\ nodes' = [nodes EXCEPT ![id] = Absent]
  /\ addressed' = addressed \ {id}

Move(id, to) == nodes' = [nodes EXCEPT ![id] = to]

(* The goroutines *)

Goto(p, next) == pc' = [pc EXCEPT ![p] = next]

Exit(p) ==
  /\ pc' = [pc EXCEPT ![p] = "idle"]
  /\ arg' = [arg EXCEPT ![p] = NoNode]

\* go ...: a goroutine starts; with no slot left the monitor waits (a bound).
Spawn(entry, id) ==
  \E p \in Procs :
    /\ pc[p] = "idle"
    /\ Goto(p, entry)
    /\ arg' = [arg EXCEPT ![p] = id]

\* ScaleUp checks the cap and sends CreateGPUNode.
ScaleUp(p) ==
  /\ pc[p] = "up"
  /\ IF ActiveCount(nodes) < MaxNodes THEN Goto(p, "create") ELSE Goto(p, "idle")
  /\ UNCHANGED <<table, timers, arg, snap, monitor, world>>

\* The Linode API serves the creation; the answer is on its way.
CreateGPUNode(p) ==
  /\ pc[p] = "create"
  /\ \E id \in FreshIds :
       /\ cloud' = [cloud EXCEPT ![id] = "booting"]
       /\ \/ Goto(p, "created") /\ arg' = [arg EXCEPT ![p] = id]
          \/ "createLost" \in Faults /\ Exit(p)
  /\ UNCHANGED <<table, timers, snap, monitor, tick, targets, work>>

\* The API refuses; without a free id (a bound) it can do nothing else.
CreateFails(p) ==
  /\ pc[p] = "create"
  /\ "createFails" \in Faults \/ FreshIds = {}
  /\ Exit(p)
  /\ UNCHANGED <<table, timers, snap, monitor, world>>

\* AddNode of the new instance; when it is refused the instance is destroyed.
TrackNode(p) ==
  /\ pc[p] = "created"
  /\ IF CanAdd(nodes, arg[p])
     THEN Move(arg[p], "provisioning") /\ Goto(p, "recordUp")
     ELSE Goto(p, "undo") /\ UNCHANGED nodes
  /\ UNCHANGED <<addressed, timers, arg, snap, monitor, world>>

\* recordScaleEvent, then the goroutine goes on as waitForNodeReady.
RecordScaleUp(p) ==
  /\ pc[p] = "recordUp"
  /\ sinceEvent' = 0
  /\ Goto(p, "wait")
  /\ UNCHANGED <<table, upAge, downAge, arg, snap, monitor, world>>

WaitForRunning(p) ==
  /\ pc[p] = "wait" /\ cloud[arg[p]] = "running"
  /\ Goto(p, "booted")
  /\ UNCHANGED <<table, timers, arg, snap, monitor, world>>

\* Wrong: gives up at the first poll that fails (DeletedOnceGivenUp).
WaitGivesUp(p) ==
  /\ pc[p] = "wait"
  /\ Goto(p, "purge")
  /\ UNCHANGED <<table, timers, arg, snap, monitor, world>>

\* The deadline of WaitForRunning.  An instance that is gone can only end so.
WaitTimesOut(p) ==
  /\ pc[p] = "wait"
  /\ "bootTimeout" \in Faults \/ cloud[arg[p]] = "none"
  /\ Goto(p, "purge")
  /\ UNCHANGED <<table, timers, arg, snap, monitor, world>>

\* SetNodeIP, which stores the answer of WaitForRunning even if it is empty, and
\* the transition to READY.  Nobody can tell that they are two calls: of a node
\* that is not READY only Observe reads the address, to overwrite it.
MarkReady(p) ==
  /\ pc[p] = "booted"
  /\ IF nodes[arg[p]] # Absent
     THEN /\ \E ip \in IPv4Answers :
               addressed' = IF ip THEN addressed \cup {arg[p]} ELSE addressed \ {arg[p]}
          /\ IF CanMove(nodes, arg[p], "ready")
             THEN Move(arg[p], "ready") /\ Goto(p, "snapshot") /\ UNCHANGED arg
             ELSE Exit(p) /\ UNCHANGED nodes
     ELSE Exit(p) /\ UNCHANGED table
  /\ UNCHANGED <<timers, snap, monitor, world>>

\* The failure path of waitForNodeReady: both results are ignored.
PurgeNode(p) ==
  /\ pc[p] = "purge"
  /\ IF CanMove(nodes, arg[p], "destroying")
     THEN Move(arg[p], "destroying") ELSE UNCHANGED nodes
  /\ Goto(p, "purged")
  /\ UNCHANGED <<addressed, timers, arg, snap, monitor, world>>

\* The Linode API serves a DestroyNode; deleting nothing is an error.
DestroyCall(p, onSuccess, onError) ==
  \/ /\ cloud[arg[p]] # "none"
     /\ cloud' = [cloud EXCEPT ![arg[p]] = "none"]
     /\ onSuccess \/ ("destroyFails" \in Faults /\ onError)
  \/ /\ cloud[arg[p]] = "none" \/ "destroyFails" \in Faults
     /\ onError
     /\ UNCHANGED cloud

DestroyPurged(p) ==
  /\ pc[p] = "purged"
  /\ DestroyCall(p, Goto(p, "forget"), Goto(p, "forget"))
  /\ UNCHANGED <<table, timers, arg, snap, monitor, tick, targets, work>>

DestroyUntracked(p) ==
  /\ pc[p] = "undo"
  /\ DestroyCall(p, Exit(p), Exit(p))
  /\ UNCHANGED <<table, timers, snap, monitor, tick, targets, work>>

ForgetPurged(p) ==
  /\ pc[p] = "forget"
  /\ Remove(arg[p])
  /\ Exit(p)
  /\ UNCHANGED <<timers, snap, monitor, world>>

\* The early returns of ScaleDown.  (DrainLocked is never set: no code outside
\* the tests calls SetDrainLock.)
ScaleDown(p) ==
  /\ pc[p] = "down"
  /\ IF nodes[arg[p]] # Absent /\ CanScale /\ AboveFloor
     THEN Goto(p, "drain") /\ UNCHANGED arg
     ELSE Exit(p)
  /\ UNCHANGED <<table, timers, snap, monitor, world>>

\* The two transitions of ScaleDown, from -> next step.
ScaleDownMove(p, from, to, next) ==
  /\ pc[p] = from
  /\ IF CanMove(nodes, arg[p], to)
     THEN Move(arg[p], to) /\ Goto(p, next) /\ UNCHANGED arg
     ELSE Exit(p) /\ UNCHANGED nodes
  /\ UNCHANGED <<addressed, timers, snap, monitor, world>>

DrainNode(p)      == ScaleDownMove(p, "drain", "draining", "mark")
MarkDestroying(p) == ScaleDownMove(p, "mark", "destroying", "destroy")

\* An error leaves the node DESTROYING for good.
DestroyNode(p) ==
  /\ pc[p] = "destroy"
  /\ DestroyCall(p, Goto(p, "destroyed") /\ UNCHANGED arg, Exit(p))
  /\ UNCHANGED <<table, timers, snap, monitor, tick, targets, work>>

\* Wrong: RemoveNode is forgotten (DestroyingOwned).
RemoveDestroyedNot(p) ==
  /\ pc[p] = "destroyed"
  /\ Goto(p, "recordDown")
  /\ UNCHANGED <<table, timers, arg, snap, monitor, world>>

RemoveDestroyed(p) ==
  /\ pc[p] = "destroyed"
  /\ Remove(arg[p])
  /\ Goto(p, "recordDown")
  /\ UNCHANGED <<timers, arg, snap, monitor, world>>

RecordScaleDown(p) ==
  /\ pc[p] = "recordDown"
  /\ sinceEvent' = 0
  /\ Goto(p, "snapshot")
  /\ UNCHANGED <<table, upAge, downAge, arg, snap, monitor, world>>

\* WriteTargetsFile: the table is read under its lock, the file written later.
ReadTargets(p) ==
  /\ pc[p] = "snapshot"
  /\ snap' = [snap EXCEPT ![p] = ReadyTargets]
  /\ Goto(p, "write")
  /\ UNCHANGED <<table, timers, arg, monitor, world>>

WriteTargets(p) ==
  /\ pc[p] = "write"
  /\ targets' = snap[p]
  /\ snap' = [snap EXCEPT ![p] = {}]
  /\ Exit(p)
  /\ UNCHANGED <<table, timers, monitor, tick, cloud, work>>

Goroutine(p) ==
  \/ ScaleUp(p) \/ CreateGPUNode(p) \/ CreateFails(p) \/ TrackNode(p)
  \/ DestroyUntracked(p) \/ RecordScaleUp(p) \/ WaitForRunning(p)
  \/ WaitTimesOut(p) \/ MarkReady(p) \/ PurgeNode(p) \/ DestroyPurged(p)
  \/ ForgetPurged(p)
  \/ ScaleDown(p) \/ DrainNode(p) \/ MarkDestroying(p) \/ DestroyNode(p)
  \/ RemoveDestroyed(p) \/ RecordScaleDown(p) \/ ReadTargets(p) \/ WriteTargets(p)

-----------------------------------------------------------------------------
(* The monitor loop *)

\* Nothing of the round that ends is read again.
EndRound ==
  /\ mpc' = "sleep"
  /\ cur' = NoNode /\ pending' = 0

StartRound ==
  /\ mpc = "sleep" /\ tick
  /\ mpc' = "list" /\ tick' = FALSE
  /\ UNCHANGED <<table, timers, procs, boot, seen, todo, changed, cur, pending,
                 msnap, cloud, targets, work>>

\* Wrong: reads the first page of the answer only (RemovedAfterDestruction).
ListFirstPage ==
  /\ mpc = "list"
  /\ seen' = [id \in NodeIds |->
                IF \E lower \in Listed(cloud) : lower < id THEN "none" ELSE cloud[id]]
  /\ mpc' = "listed"
  /\ UNCHANGED <<table, timers, procs, boot, todo, changed, cur, pending,
                 msnap, world>>

\* The Linode API serves ListManagedNodes; the answer is on its way.
ListManagedNodes ==
  /\ mpc = "list"
  /\ seen' = cloud
  /\ mpc' = "listed"
  /\ UNCHANGED <<table, timers, procs, boot, todo, changed, cur, pending,
                 msnap, world>>

\* Run only warns and writes the targets; monitorLoop skips the tick.
ListFails ==
  /\ mpc = "list" /\ "listFails" \in Faults
  /\ mpc' = IF boot THEN "snapshot" ELSE "sleep"
  /\ UNCHANGED <<table, timers, procs, boot, seen, todo, changed, cur, pending,
                 msnap, world>>

ListArrives ==
  /\ mpc = "listed"
  /\ todo' = Listed(seen)
  /\ mpc' = "adopt"
  /\ UNCHANGED <<table, timers, procs, boot, seen, changed, cur, pending,
                 msnap, world>>

\* Wrong: a cloud node that is not tracked is passed over (ColdStartServed,
\* NoInstanceLeaks).
LookUpTracked ==
  /\ mpc = "adopt"
  /\ \E id \in todo :
       /\ cur' = id
       /\ todo' = todo \ {id}
       /\ mpc' = IF nodes[id] = Absent THEN "adopt" ELSE "observe"
  /\ UNCHANGED <<table, timers, procs, boot, seen, changed, pending, msnap, world>>

\* GetNode of the next cloud node.
LookUp ==
  /\ mpc = "adopt"
  /\ \E id \in todo :
       /\ cur' = id
       /\ todo' = todo \ {id}
       /\ mpc' = IF nodes[id] = Absent THEN "add" ELSE "observe"
  /\ UNCHANGED <<table, timers, procs, boot, seen, changed, pending, msnap, world>>

\* Wrong: only an instance that runs is adopted (InstanceCap).
AdoptRunning ==
  /\ mpc = "add"
  /\ IF CanAdd(nodes, cur) /\ seen[cur] = "running"
     THEN Move(cur, "provisioning") /\ changed' = TRUE /\ mpc' = "observe"
     ELSE mpc' = "adopt" /\ UNCHANGED <<nodes, changed>>
  /\ UNCHANGED <<addressed, timers, procs, boot, seen, todo, cur, pending,
                 msnap, world>>

\* AddNode of a cloud node that was not tracked.
Adopt ==
  /\ mpc = "add"
  /\ IF CanAdd(nodes, cur)
     THEN Move(cur, "provisioning") /\ changed' = TRUE /\ mpc' = "observe"
     ELSE mpc' = "adopt" /\ UNCHANGED <<nodes, changed>>
  /\ UNCHANGED <<addressed, timers, procs, boot, seen, todo, cur, pending,
                 msnap, world>>

\* SetNodeIP of a listed node that is tracked; an empty IPv4 is passed over.
RecordIPv4 ==
  \E ip \in IPv4Answers :
    addressed' = IF ip /\ nodes[cur] # Absent THEN addressed \cup {cur} ELSE addressed

\* Wrong: whatever runs is READY (NodesFollowLifecycle) ...
ObserveRunning ==
  LET promoted == seen[cur] = "running" /\ nodes[cur] \in NodeState \ {"ready"}
  IN  /\ mpc = "observe"
      /\ RecordIPv4
      /\ IF promoted THEN Move(cur, "ready") ELSE UNCHANGED nodes
      /\ changed' = (changed \/ promoted \/ addressed' # addressed)
      /\ mpc' = "adopt"
      /\ UNCHANGED <<timers, procs, boot, seen, todo, cur, pending, msnap, world>>

\* ... or promotion is left to waitForNodeReady (NeverWedged).
ObserveAddress ==
  /\ mpc = "observe"
  /\ RecordIPv4
  /\ changed' = (changed \/ addressed' # addressed)
  /\ mpc' = "adopt"
  /\ UNCHANGED <<nodes, timers, procs, boot, seen, todo, cur, pending, msnap, world>>

\* SetNodeIP when the address is new, and READY when the instance runs, with an
\* address or without.  A node removed since is left alone: both calls fail.
Observe ==
  LET promoted == seen[cur] = "running" /\ nodes[cur] = "provisioning"
  IN  /\ mpc = "observe"
      /\ RecordIPv4
      /\ IF promoted THEN Move(cur, "ready") ELSE UNCHANGED nodes
      /\ changed' = (changed \/ promoted \/ addressed' # addressed)
      /\ mpc' = "adopt"
      /\ UNCHANGED <<timers, procs, boot, seen, todo, cur, pending, msnap, world>>

\* The second loop runs over a copy of the table, less the listed nodes.
Compare ==
  /\ mpc = "adopt" /\ todo = {}
  /\ todo' = Tracked(nodes) \ Listed(seen)
  /\ mpc' = "prune" /\ seen' = NoInstance /\ cur' = NoNode
  /\ UNCHANGED <<table, timers, procs, boot, changed, pending, msnap, world>>

\* Wrong: keeps READY nodes as well (GhostsLeave).
PruneUnready ==
  /\ mpc = "prune"
  /\ \E id \in todo :
       /\ todo' = todo \ {id}
       /\ IF nodes[id] \in {"provisioning", "ready"}
          THEN UNCHANGED <<table, changed>>
          ELSE Remove(id) /\ changed' = TRUE
  /\ UNCHANGED <<timers, procs, mpc, boot, seen, cur, pending, msnap, world>>

Prune ==
  /\ mpc = "prune"
  /\ \E id \in todo :
       /\ todo' = todo \ {id}
       /\ IF nodes[id] = "provisioning"
          THEN UNCHANGED <<table, changed>>
          ELSE Remove(id) /\ changed' = TRUE
  /\ UNCHANGED <<timers, procs, mpc, boot, seen, cur, pending, msnap, world>>

\* The targets are written if something changed, and always at startup.
Reconciled ==
  /\ mpc = "prune" /\ todo = {}
  /\ mpc' = IF changed \/ boot THEN "snapshot" ELSE "queue"
  /\ UNCHANGED <<table, timers, procs, boot, seen, todo, changed, cur, pending,
                 msnap, world>>

MonitorReadsTargets ==
  /\ mpc = "snapshot"
  /\ msnap' = ReadyTargets
  /\ mpc' = "write"
  /\ UNCHANGED <<table, timers, procs, boot, seen, todo, changed, cur, pending, world>>

MonitorWritesTargets ==
  /\ mpc = "write"
  /\ targets' = msnap
  /\ msnap' = {} /\ changed' = FALSE /\ boot' = FALSE
  /\ mpc' = IF boot THEN "sleep" ELSE "queue"
  /\ UNCHANGED <<table, timers, procs, seen, todo, cur, pending, tick, cloud, work>>

\* Wrong: counts the jobs of the stream and of the consumer (TypeOK).
GetQueueStatsTwice ==
  /\ mpc = "queue"
  /\ pending' = work + work
  /\ mpc' = "up"
  /\ UNCHANGED <<table, timers, procs, boot, seen, todo, changed, cur, msnap, world>>

\* With both queries failing the queue is reported empty.
GetQueueStats ==
  /\ mpc = "queue"
  /\ pending' \in {work} \cup (IF "outage" \in Faults THEN {0} ELSE {})
  /\ mpc' = "up"
  /\ UNCHANGED <<table, timers, procs, boot, seen, todo, changed, cur, msnap, world>>

\* Wrong: is not reset (ScaleOutSustained).
UpTimerKept(sustained) ==
  IF sustained /\ upAge = NIL THEN 0 ELSE upAge

\* scaleUpSince after a sample.  Above the threshold, but with a node that is
\* not READY or at the cap, it is left alone.
UpTimer(sustained) ==
  IF sustained THEN IF upAge = NIL THEN 0 ELSE upAge
  ELSE IF pending <= ScaleUpThreshold THEN NIL ELSE upAge

\* EvaluateScaleUp up to the gate: nothing tracked as active, or a queue above
\* the threshold for as long as the timer runs.
EvaluateScaleUp ==
  LET active    == ActiveCount(nodes)
      cold      == pending > 0 /\ active = 0
      sustained == /\ pending > ScaleUpThreshold
                   /\ ReadyCount(nodes) = active /\ active > 0 /\ active < MaxNodes
  IN  /\ mpc = "up"
      /\ IF cold
         THEN mpc' = "coldStart" /\ UNCHANGED upAge
         ELSE /\ upAge' = UpTimer(sustained)
              /\ mpc' = IF sustained /\ upAge # NIL /\ upAge >= ScaleUpDuration
                        THEN "scaleOut" ELSE "down"
      /\ UNCHANGED <<table, sinceEvent, downAge, procs, boot, seen, todo, changed,
                     cur, pending, msnap, world>>

\* Wrong: without the in-progress guard (OneScaleOperation), without the
\* cooldown (CooldownRespected).
GateCooldownOnly == CanScale
GateIdleOnly     == ~IsScalingInProgress(nodes)

Gate == CanScale /\ ~IsScalingInProgress(nodes)

\* The gate and the "go o.ScaleUp" of the 0 -> 1 branch: the timer stays.
ColdStart ==
  /\ mpc = "coldStart" /\ mpc' = "down"
  /\ IF Gate THEN Spawn("up", NoNode) ELSE UNCHANGED <<pc, arg>>
  /\ UNCHANGED <<table, timers, snap, boot, seen, todo, changed, cur, pending,
                 msnap, world>>

\* The same of the N -> N+1 branch: the timer is cleared.
ScaleOut ==
  /\ mpc = "scaleOut" /\ mpc' = "down"
  /\ IF Gate THEN Spawn("up", NoNode) /\ upAge' = NIL
     ELSE UNCHANGED <<pc, arg, upAge>>
  /\ UNCHANGED <<table, sinceEvent, downAge, snap, boot, seen, todo, changed, cur,
                 pending, msnap, world>>

\* EvaluateScaleDown up to the gate.  The target is the READY node of the
\* highest id.
EvaluateScaleDown ==
  LET active   == ActiveCount(nodes)
      ready    == NodesByState(nodes, "ready")
      idle     == IF downAge = NIL THEN 0 ELSE downAge
      required == IdleWindow(active)
      blocked  == active = 0 \/ ready = {} \/ ~AboveFloor \/ pending > 0
  IN  /\ mpc = "down"
      /\ \/ blocked /\ downAge' = NIL /\ EndRound
         \/ ~blocked /\ idle < required /\ downAge' = idle /\ EndRound
         \/ /\ ~blocked /\ idle >= required
            /\ downAge' = idle
            /\ mpc' = "scaleIn"
            /\ cur' \in {id \in ready : \A other \in ready : other <= id}
            /\ UNCHANGED pending
      /\ UNCHANGED <<table, sinceEvent, upAge, procs, boot, seen, todo, changed,
                     msnap, world>>

ScaleIn ==
  /\ mpc = "scaleIn"
  /\ IF Gate THEN Spawn("down", cur) /\ downAge' = NIL
     ELSE UNCHANGED <<pc, arg, downAge>>
  /\ EndRound
  /\ UNCHANGED <<table, sinceEvent, upAge, snap, boot, seen, todo, changed, msnap,
                 world>>

Monitor ==
  \/ StartRound \/ ListManagedNodes \/ ListFails \/ ListArrives
  \/ LookUp \/ Adopt \/ Observe \/ Compare \/ Prune \/ Reconciled
  \/ MonitorReadsTargets \/ MonitorWritesTargets
  \/ GetQueueStats \/ EvaluateScaleUp \/ ColdStart \/ ScaleOut
  \/ EvaluateScaleDown \/ ScaleIn

-----------------------------------------------------------------------------
(* The environment *)

\* Local steps are over long before the next tick; only a goroutine that waits
\* for the Linode API may see time pass.
Patient ==
  {"idle", "wait"} \cup
  (IF "slowCalls" \in Faults THEN {"create", "created", "undo", "purged", "destroy"} ELSE {})

MonitorPatient ==
  \/ mpc = "sleep" /\ ~tick
  \/ mpc \in {"list", "listed"} /\ "slowCalls" \in Faults

\* One MonitorInterval passes.  Jobs arrive all the time, they are finished by
\* the agents on running instances.
TimePasses ==
  /\ MonitorPatient /\ \A p \in Procs : pc[p] \in Patient
  /\ tick' = TRUE
  /\ sinceEvent' = Older(sinceEvent, CooldownDuration)
  /\ upAge' = Older(upAge, ScaleUpDuration)
  /\ downAge' = Older(downAge, IdleCap)
  /\ work' \in 0 .. MaxWork
  /\ work' >= work \/ \E id \in NodeIds : cloud[id] = "running"
  /\ UNCHANGED <<table, procs, monitor, cloud, targets>>

Boot(id) ==
  /\ cloud[id] = "booting"
  /\ cloud' = [cloud EXCEPT ![id] = "running"]
  /\ UNCHANGED <<table, timers, procs, monitor, tick, targets, work>>

Vanish(id) ==
  /\ "vanish" \in Faults /\ cloud[id] # "none"
  /\ cloud' = [cloud EXCEPT ![id] = "none"]
  /\ UNCHANGED <<table, timers, procs, monitor, tick, targets, work>>

\* Everything in memory is lost; the cloud, the file and the stream are not.
Crash ==
  /\ "crash" \in Faults
  /\ nodes' = EmptyTable /\ addressed' = {}
  /\ sinceEvent' = CooldownDuration /\ upAge' = NIL /\ downAge' = NIL
  /\ pc' = [p \in Procs |-> "idle"]
  /\ arg' = [p \in Procs |-> NoNode]
  /\ snap' = [p \in Procs |-> {}]
  /\ mpc' = "list" /\ boot' = TRUE /\ seen' = NoInstance /\ todo' = {}
  /\ changed' = FALSE /\ cur' = NoNode /\ pending' = 0 /\ msnap' = {}
  /\ tick' = FALSE
  /\ UNCHANGED <<cloud, targets, work>>

Next ==
  \/ \E p \in Procs : Goroutine(p)
  \/ Monitor
  \/ TimePasses
  \/ \E id \in NodeIds : Boot(id) \/ Vanish(id)
  \/ Crash

Spec == Init /\ [][Next]_vars

\* Goroutines and the monitor are scheduled, time goes on, instances boot, and
\* a listing that keeps being asked for is answered now and then.
Fairness ==
  /\ \A p \in Procs : WF_vars(Goroutine(p))
  /\ WF_vars(Monitor) /\ SF_vars(ListManagedNodes)
  /\ WF_vars(TimePasses)
  /\ \A id \in NodeIds : WF_vars(Boot(id))

FairSpec == Spec /\ Fairness

=============================================================================
