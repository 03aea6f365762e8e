# TLA+ models of serverless-gpu-linode

A gateway (`api/`) puts jobs into a JetStream work queue. An orchestrator
(`orchestrator/`) watches the queue's depth and creates or destroys GPU nodes at
Linode, between `MIN_NODES` and `MAX_NODES`, down to none at all. An agent on each
node (`nats-agent/`) pulls jobs, forwards them to the workload
(`ai-processor/`), retries, and either acknowledges them or buries them in a
dead-letter queue. Two things make this hard:

* the orchestrator decides from a table that goroutines, a periodic
  reconciliation and the cloud change at the same time;
* the agents promise that a job is never lost and normally runs once, over
  deliveries that are repeated, acknowledgements that are lost and processes that
  stop at any point.

Paths below are relative to the repository's root.

## Inventory

| component | state it keeps | operations | what makes it correct |
|---|---|---|---|
| node state machine, `orchestrator/statemachine.go` | `NodeManager.nodes`, id → record with state, address, `ReadyAt`, `DrainLocked`, under `mu` | `AddNode`, `TransitionNode`, `RemoveNode`, `SetNodeIP`, `SetDrainLock`, counting queries | four states, allowed edges only, never above the cap |
| scaler, `orchestrator/scaler.go` | `lastScaleEvent`, `scaleUpSince`, `scaleDownSince`, the running `ScaleUp`, `waitForNodeReady`, `ScaleDown` goroutines | `EvaluateScaleUp`, `EvaluateScaleDown`, `ScaleUp`, `ScaleDown` | one operation at a time, a cooldown between them, floor and cap, decisions only after a sustained overload or idle time, a queue with work gets a node |
| monitor and reconciliation, `orchestrator/orchestrator.go` | position in the round, the last listing, `changed` | startup round, `monitorLoop`, `reconcileWithCloud`, `getQueueStats` | the table follows the cloud; nothing that exists is forgotten; a restart adopts what exists |
| Linode client, `orchestrator/linode.go` | none (the cloud's instances) | `CreateGPUNode`, `WaitForRunning`, `DestroyNode`, `ListManagedNodes` | external service; may be slow, fail, or lose an answer |
| discovery, `orchestrator/discovery.go` | the Prometheus targets file | `WriteTargetsFile` | the file lists the READY nodes |
| bootstrap, `orchestrator.go:183-331`, `agent.go:65-205` | streams and consumer at JetStream; `heartbeatInterval` of each agent | `ensureStream`, `ensureConsumer`, `ensureDLQStream`, `subscribe` | several processes create the same resources at the same time; all end with the expected configuration; an agent that comes first is bound in the end |
| heartbeats, `agent.go:189-205`, `461-500` | a ticker per handler; the lease JetStream keeps | `startAckProgressHeartbeat` | a lease does not run out under a handler that lives |
| gateway, `api/main.go` | the connection, the client library's buffer | `handleCreateJob`, `run` | 202 only for a job that is stored; a job runs twice only if its client sent it twice |
| agent, `nats-agent/agent.go`, `main.go` | `inflight` tokens, `wg`, `shuttingDown`, one goroutine and one heartbeat per message | `Run`, `consumeLoop`, `processMessage`, `waitForInflight` | at most `MAX_INFLIGHT` jobs, one handler per job, ack only after success or burial, release on shutdown |
| JetStream (external) | the messages, their delivery counts | delivery, `AckWait`, `MaxDeliver`, ack, nak | as configured by `desiredConsumerConfig` |
| ai-processor | none | `/process` | its status code is the outcome of an attempt |
| metrics, health endpoints, dashboards, compose files, scripts | nothing that is read back | – | – |

How they interact: gateway → JetStream by publish; orchestrator ← JetStream by
`StreamInfo` and `ConsumerInfo`; orchestrator ↔ Linode by API calls from three
kinds of goroutine; agent ↔ JetStream by pull, ack, nak, `InProgress`; agent →
ai-processor by HTTP. The orchestrator and the agents never talk to one another:
they share the queue (its depth) and the nodes (an agent runs on a node).

The hazards, each at its line, are listed in `PROJECT.json`. In short: a slow API
call outlives the tick that should have seen it; a listing is older than the table
it is compared with; one step of several fails and leaves a state with no way out;
a restart forgets timers and table; a timer survives the condition it measures; a
job is delivered again while its first handler works; a token or a message is lost
on one of many error paths; a shutdown races a fetch; a setting is read once and
changed later by another process; a node is given up while a job is on its way to it.

## Modules

| module | models |
|---|---|
| `NodeTable` | the guards, edges and queries of `NodeManager` as operators on a table; constants `NodeIds`, `MaxNodes` |
| `NodeLifecycle` | abstract: what the table promises, whoever writes it |
| `Orchestrator` | monitor loop, reconciliation, scaler goroutines, Linode, targets file, restarts |
| `ScalingProperties` | its type invariant and properties; instantiates `NodeLifecycle` |
| `ScalingHistory` | `Orchestrator` with history variables: for how long the *stream* has been overloaded or empty |
| `OrchestratorProofs`, `ScalingProofs`, `HistoryProofs` | theorems about `Orchestrator`, of `ScalingProperties` and of `ScalingHistory` |
| `JobPromise` | abstract: what a client is promised about an accepted job |
| `JobDelivery` | stream and consumer, agents with their loop, handlers and shutdown |
| `DeliveryProperties` | its type invariant and properties; instantiates `JobPromise` |
| `DeliveryProofs` | theorems about `JobDelivery` |
| `Bootstrap` | how orchestrators and agents find, create and update streams and consumer; the agent's choice of a heartbeat interval |
| `Lease` | `Bootstrap` with agents that hold messages: heartbeats against `AckWait`; its properties |
| `LeaseProofs` | theorems about `Lease` |
| `Gateway` | the gateway and clients that try again, on top of `JobDelivery`; its properties |
| `GatewayProofs` | theorems about `Gateway`, on top of those about `JobDelivery` |
| `Cluster` | `Orchestrator` and `JobDelivery` composed: an agent per instance, one queue; its properties |
| `ClusterProofs` | theorems about `Cluster`, which instantiates the proof modules of both parts |
| `MCOrchestrator`, `MCHistory`, `MCJobDelivery`, `MCGateway`, `MCLease`, `MCCluster` | symmetry sets and function-valued constants for TLC |

Definitions whose comment begins with `Wrong:` are deliberate errors, each named
with the property that catches it; no specification uses them. `PROJECT.json`
(`mutants`) says which definition each one replaces.

### Orchestrator and its code

A step is the code between two points where another goroutine can interfere: a
call of a method that takes `mu`, an API call, a read or write of the file. So
`ScaleUp` is the steps `up` (cap check), `create`, `created` (`AddNode`),
`recordUp`, then `waitForNodeReady` as `wait`, `booted`, `snapshot`, `write`, or
`purge`, `purged`, `forget`; `ScaleDown` is `down`, `drain`, `mark`, `destroy`,
`destroyed`, `recordDown`, `snapshot`, `write`. The monitor is one more process:
`list`, `listed`, `adopt`/`add`/`observe` per listed id, `prune`, `snapshot`,
`write`, `queue`, `up`, `coldStart`/`scaleOut`, `down`, `scaleIn`, `sleep`.

* `nodes` and `addressed` are `NodeManager.nodes` (state, and whether `IPv4` is
  set); `sinceEvent`, `upAge`, `downAge` are the ages of `lastScaleEvent`,
  `scaleUpSince`, `scaleDownSince`, in ticks of `MonitorInterval`, capped at the
  duration they are compared with; `seen` is the answer of `ListManagedNodes`;
  `cloud` is Linode; `work` is what `PendingWork()` would be.
* `boot` is the startup round of `Run` (`orchestrator.go:101-108`), which reconciles
  and writes the file whether or not that succeeded, and evaluates nothing.
* `Faults` chooses what may go wrong. A run's set is part of what its
  properties claim.

Choices a reader should know of:

* *Reads of one decision.* `EvaluateScaleUp` calls `ActiveCount` and `ReadyCount`
  one after the other, and a gate reads the cooldown and the table. They are
  evaluated on one state. The goroutines that could change the table in between
  are one step earlier or later in another behaviour; what the decision *does*
  (gate, `go`) is a step of its own, so a decision may be stale when it is acted on.
* *Races.* `reconcileWithCloud` and the goroutines read fields of `*Node` without
  `mu` (`GetNode` returns the pointer). A racy read of a one-word state returns
  the value before or after the write, which is an interleaving of the steps.
* *Time.* `TimePasses` needs every goroutine to wait for something slow: the
  monitor for its ticker, `waitForNodeReady` for the boot, and, with `slowCalls`,
  anything that waits for the Linode API. Local steps take microseconds, a tick ten
  seconds.
* *Addresses.* The API may answer without an IPv4, in a listing and in
  `WaitForRunning` (`linode.go:106`, `:138`; the fault `noAddress`). The node becomes
  READY all the same, with no address on record; the reconciliation passes an empty
  answer over, `waitForNodeReady` stores it, over an address it finds there. Only
  `WriteTargetsFile` cares, which skips such a node.
* *`SetNodeIP` and READY* of `waitForNodeReady` are one step: the address of a node
  that is not READY is read by the reconciliation alone, to overwrite it.
* *Ids* of Linode only grow; the model reuses an id when nothing refers to it any
  more (`FreshIds`), which keeps the set finite.
* *A creation under way across a crash* has happened before the crash or does not
  happen.
* *`getQueueStats`* returns the depth of the queue, from the consumer's counters or
  from the stream; `outage` is both queries failing. The two sources differ by the
  stranded messages of `JobDelivery`, which only the stream still counts: a
  difference in number, not in what the controller does with it. The fallback for
  a stream that is no work queue is left out: `ensureStream` makes one.
* *`AddNode` and the following `GetNode`* of the reconciliation
  (`orchestrator.go:391-400`) are one step. A removal exactly between them would make
  `node` nil and the process panic, which is what `Crash` does at any point.
* *Agents* appear as jobs that may finish while some instance runs (`TimePasses`).
* *`DrainLocked`* is never set outside the tests.

### JobDelivery and its code

`stream[j]` is where JetStream has the message: available, pending an ack,
stranded (kept, but out of deliveries), removed. Each delivery `<<j, n>>` has its
own handler, the goroutine `consumeLoop` starts: `start` (shutdown check, JSON),
`forward` (an attempt), `bury` (`publishToDLQ`), `ack`, `nak`, and the deferred
return of the token. An agent has two more processes: `Run` (`life`: up, stopping,
draining, down) and `consumeLoop` (`loop`: acquire, fetch, stopped, failed).

* JetStream is external and modelled as far as the code relies on it: a work-queue
  stream, `AckExplicit`, `AckWait`, `MaxDeliver`. An acknowledgement that arrives
  removes the message even if it belongs to an earlier delivery.
* Heartbeats are modelled by their effect: `AckWait` does not pass while a handler
  lives, unless `lapse` is among the faults. `lapse` also stands for the time
  before the heartbeat starts and for the path of malformed messages, which has
  none.
* Delays between attempts and the delay of `nak` are left out: they change when,
  not what. `ForwardFails` stands for every error that is retried.
* `Gone` is the end of a process at any point: its handlers vanish, tokens and
  `shuttingDown` are new in the next process.

### Bootstrap, Lease and their code

The three "ensure" functions have one shape: ask for the resource (`info`), `update`
it when it is not as desired, `add` it when the answer was an error, and ask once
more (`recheck`) when adding failed. `step` and `on` are a process's place in this
sequence: an orchestrator goes through the jobs stream, the dead-letter stream and the
consumer, an agent through the dead-letter stream only; then it binds to the consumer
and chooses its interval.

* A configuration is a number, which is all that "same or different" needs: for the
  consumer its `AckWait`, for a stream its subject. `Missing` is 0.
* JetStream is external: adding what exists with the same configuration succeeds,
  with another one it fails; `Bind` never creates a consumer. JetStream accepts every
  update that reaches it (but see the retention policy below).
* `Leftover` is what an earlier deployment may have left.
* `connectNATS` retries for ever and the HTTP server of an agent is started beside
  `Run`; neither has a state another process sees. A process that ends is started again
  by its container.
* A lease has one clock: `age`, the time since the message was delivered or a heartbeat
  arrived, `beat`, the time to the ticker. One message per agent is enough, since every
  handler has a ticker of its own. No two heartbeats in a row are lost (bound).

### Gateway and its code

A request is one POST of a client's job and has one message; a client that repeats its
job sends another request. Nothing identifies the two messages as one job (no
`Nats-Msg-Id`), so the stream takes both.

* `answer` is what the client was told; `wire` is where the message is: in the client
  library's buffer, sent, stored. `Publish` may give up while the message is in any of
  these places, so 503 says nothing of whether the job is stored, and a client that
  sends its job again may have it run twice.
* `Refuse` is every early return of `handleCreateJob`. Whatever it answers, no message
  exists.
* `GatewayCrash` is also the shutdown: `ListenAndServe` returns as soon as `Shutdown`
  *begins* (`api/main.go:133`), so `run` returns and the process ends with requests
  under way.

### Cluster and its code

`Cluster` instantiates both machines with shared ids: an instance that is running
has an agent (`RunAgent`), and the deletion of an instance is `Gone` for its agent, at
whatever point it was. The controller's `work` is no variable any more but
`PendingWork`, the consumer's two counters (`orchestrator.go:71`). DRAINING is a word in
the orchestrator's table: nothing tells the agent, which goes on pulling jobs. What
the two parts do by themselves is in their own runs; the run of the composition has
no faults, so that what it says is about the interaction alone. The composition has
no step for a restart of the orchestrator or an instance that vanishes. What holds of
it under the faults of either side is proved (`ClusterProofs`).

## Runs

Bounds: one or two nodes and a third id are enough to have a node of each kind
beside one being created or destroyed; two goroutine slots allow two operations to
overlap, which is what the gates are about (they are never needed when the gates
work). Durations of one or two ticks distinguish "at once", "too early" and "long
enough", and idle windows differ so that mixing them up shows. Queue depth 2 with
threshold 1 has values below, at and above it. Two agents and two deliveries
suffice for a redelivery to another agent; `ends` has three deliveries. In `startup`
`AckWait` is 6 and was 3 before, one agent asks for an interval of exactly 6 (the edge
of the comparison), the other for 1; the dead-letter stream may have another subject.
In `gateway` one client may send twice, so that a message the client has given up may
still be under way beside its repetition, and two messages may be in hand at once. In `cluster` two ids are needed although one node is
allowed, because a destroyed id is not fresh while the targets file lists it; one
goroutine slot is enough for a node that is created and one that is destroyed in turn.
The safety property was also checked with two nodes and two slots (6.8 million states);
the run keeps the instance small enough for its two liveness properties.

| run | spec, bounds | faults | shows |
|---|---|---|---|
| `chaos` | 2 ids, max 1 | listing, boot, destroy fail, no address, crash, slow calls | `TypeOK`; `NodesFollowLifecycle`: the controller implements `NodeLifecycle`; `DrainingOwned` |
| `floor` | 3 ids, max 2, min 1 | create, list fail, answer lost, no address, crash, outage | `ScaleDownFloor`, `DeletedOnceGivenUp`, `DestroyingOwned` |
| `scaling` | 3 ids, max 2, min 0, history | create, list, destroy fail, answer lost, no address, crash | `InstanceCap`, `OneScaleOperation`, `CooldownRespected`, `ScaleOutSustained`, `ScaleInIdle`, `RemovedAfterDestruction` |
| `serves` | fair; 2 ids, max 2 | list fails, answer lost, no address | `ColdStartServed`, `NeverWedged`, `NoInstanceLeaks` |
| `ghosts` | fair; 2 ids, max 1 | list, destroy fail, answer lost, no address, vanish, crash | `GhostsLeave` |
| `delivery` | 2 jobs (one malformed), 2 agents, 2 deliveries | all | `TypeOK`, `NoLoss`, `TokensAccounted`, `ConcurrencyBounded`; `KeepsPromise`: implements `JobPromise` |
| `ends` | fair; 1 job, 3 deliveries | all but `lapse` | `SoleHandler`, `EveryJobEnds` |
| `gateway` | 1 client, 2 sends, 2 agents, 2 deliveries | stop, DLQ fails, delivery lost; all of `LinkFaults` | `AcceptedIsQueued`, `OneOutcome` |
| `startup` | fair; 2 orchestrators, 2 agents | calls fail, answers lost, stop, a heartbeat lost | `TypeOK`, `ExpectedConfig`, `OwnershipRetained`, `AgentsServe` |
| `cluster` | fair; 2 ids, max 1, 2 jobs (one malformed), 2 in flight | none | `OneSpareDelivery`, `EverySettled`, `ScalesToZero` |
| `phantom`, `for_retry` | | | disagreements, below |

Symmetry (goroutine slots, agents) is used only in runs without liveness.
Deadlock is checked everywhere.

**Why a fault is missing from a run.** It is where the property stops holding, and
TLC shows it: `InstanceCap` and `OneScaleOperation` fail with slow calls;
`InstanceCap` also with a boot timeout whose clean-up fails; `RemovedAfterDestruction`
with either; `DeletedOnceGivenUp` with a boot timeout, since a node may become READY
at that moment, and with slow calls (`vanish` is such a deletion itself); `NeverWedged` fails
when a destroy fails (the node stays DESTROYING, a state with no way out) and
under `vanish`; `NoInstanceLeaks` fails under crashes that never stop;
`DestroyingOwned` fails when a destroy fails; `ScaleDownFloor` fails when another
goroutine purges a node meanwhile; `ScaleInIdle` fails in an outage; `OneOutcome`
fails under crashes and lost acknowledgements, which is at-least-once delivery;
`EverySettled` and `OneSpareDelivery` fail whenever a delivery can be used up
without an outcome (a stop, a crash, a lost message, a DLQ that refuses, and, with two
jobs in flight, a fetch that fails: `Run` then ends without waiting for the other
handler), which is why `ends` claims less. `ExpectedConfig` and `OwnershipRetained` fail
with `infoFails`: a query that fails is taken for a missing resource.

### Fairness

`Orchestrator`: weak fairness of each goroutine, of the monitor, of time and of
booting (Go schedules a goroutine that can run; time passes; instances boot).
Strong fairness of `ListManagedNodes`: a listing that is tried on every tick does
not fail for ever. Nothing makes creations or deletions succeed.

`JobDelivery`: weak fairness of `Run` (with `restart: unless-stopped`,
`deploy/integration/gpu-node.compose.yml:5`, a process that ended starts again), of
the loop and of handlers (an HTTP call has a timeout), and of `AckWait`. Strong
fairness of `Acquire` (an agent is not stopped each time before it pulls) and of
`Fetch` per job (a job that is available again and again is pulled at some time).
No fairness of anything the endpoint, the network or an operator decides.

`Lease`: weak fairness of each process, for it is started again when it ends; strong
fairness of "some call is answered", for JetStream does not fail every call. `AgentsServe`
speaks of the time after the last process was killed.

`Cluster`: what its two parts assume of their own steps, except the strong fairness of
listings and of `Acquire`, which matters only under faults. An agent is started, fairly,
while its instance runs.

## Disagreements

With a run and a counterexample:

* `phantom`: a listing answered before `ScaleUp`'s `AddNode` adopts the new
  instance; `AddNode` then fails and `ScaleUp` destroys the instance; the
  PROVISIONING node is never pruned (`orchestrator.go:437`), and all scaling stops.
* `for_retry`: agent.go:392 releases the message "so another worker can retry"; on
  the last of `MaxDeliver` deliveries nobody can, and the job is in neither queue.

Disagreements without a run (seen while modelling; where a fault or a value is named,
TLC shows the case when it is added to the run of the property named):

* `scaler.go:224`: README.md:277 says "only one scale operation runs at a time". While
  `CreateGPUNode` lasts longer than a tick nothing is tracked and no cooldown runs, so
  the next round starts a second `ScaleUp`, up to `MAX_NODES` + 1 instances
  (`OneScaleOperation`, `InstanceCap`; `slowCalls`).
* `orchestrator.go:211`, `:282`: any error of `StreamInfo` or `ConsumerInfo` is read as
  "missing"; adding then fails, and the second query (`:249`, `:324`) accepts whatever
  configuration is there. README.md:167 says "with expected config" (`ExpectedConfig`;
  `infoFails`).
* `agent.go:190`: the interval is chosen once. An orchestrator that comes later with a
  shorter `ACK_WAIT` updates the consumer under a running agent, whose interval may
  then exceed it (`OwnershipRetained`; a `Leftover` of 9). When the one query fails
  the configured interval stays as it is (`agent.go:191`; `infoFails`).
* `agent.go:193`: for an `AckWait` of a second or less the adjusted interval is not
  shorter than `AckWait`; and an interval of 0 or less stands for 5 s (`agent.go:463`),
  which is compared with nothing. An interval a little shorter than `AckWait` is kept,
  and does not survive the loss of one heartbeat.
* `nats-agent/main.go:43`, `orchestrator/main.go:66`: the default dead-letter subject
  follows `NATS_SUBJECT` in the agent, and is `GPU_JOBS.DLQ` in the orchestrator. With
  another job subject and no `NATS_DLQ_SUBJECT` the two differ, neither compares, and
  the agent publishes to a subject no stream takes: the behaviour of a `dlqFails` that
  never ends.
* `api/main.go:133`: the five seconds of grace given to requests are never used, since
  `ListenAndServe` returns when `Shutdown` begins.
* A leftover stream with another retention policy: JetStream refuses to turn a stream
  into a work queue or back, so `UpdateStream` would fail and the orchestrator exit
  every time. Not modelled: it rests on JetStream alone.
* `scaler.go:61`: the 0 → 1 branch returns before `scaleUpSince` is reset, so the
  timer survives a sample below the threshold (`ScaleOutSustained`, `vanish`).
* `orchestrator.go:477`: with JetStream unreachable, pending work is 0 without an
  error, and nodes are given up while jobs wait (`ScaleInIdle`, `outage`).
* `scaler.go:255`: the deadline of `WaitForRunning` may pass just as a reconciliation
  makes the node READY. No transition leads from READY to DESTROYING
  (`statemachine.go:22`), the error is ignored, and the instance of a node that takes
  jobs is deleted (`DeletedOnceGivenUp`, `bootTimeout`).
* `scaler.go:263`: an answer of `WaitForRunning` without an IPv4 replaces the address
  that a listing has recorded; the node is off the targets file until the next round
  (`noAddress`, with no property).
* `api/main.go:182`: a publish that times out is answered with 503 although its job may
  be stored; the client sends it again, in a message that nothing identifies as the
  same job, and it runs twice.
* `scaler.go:257`: the clean-up after a boot timeout ignores the error of
  `DestroyNode` and forgets the node; `statemachine.go:109` says "only ... after
  destruction" (`RemovedAfterDestruction`, `bootTimeout` and `destroyFails`).
* `discovery.go:69`: the table is read and the file written without a lock around
  both; two writers can leave the older list, with no fault at all.
* `agent.go:113`: when `consumeLoop` returns before `Run` sees the cancellation,
  `shuttingDown` is never set and a handler forwards a new job during the drain;
  README.md:140 says it "stops accepting new work".
* `agent.go:549`: after `DRAIN_TIMEOUT` messages are left pending until `AckWait`
  passes, not released.

## Proofs

Checked by TLAPS for every value of the constants, under the named assumptions of
the modules (`NodeIdsAssumption`: ids are a finite set of positive numbers;
`MaxNodesAssumption`, `OrchestratorAssumption`: what `loadConfig` enforces;
`JobDeliveryAssumption`: a finite set of jobs, positive limits). No assumption is
made about `Faults` beyond its type, except where a theorem says so.

`OrchestratorProofs`

* `TypeCorrect`: `TypeOK` is inductive. It says more than types: a goroutine or the
  monitor has an instance in hand at each step that uses one.
* `ImplementsLifecycle`: every step changes the table by at most one step of
  `NodeLifecycle` (`TableStep`). It needs `TypeOK` only, because every write goes
  through the guards `CanAdd` and `CanMove` or is a removal.
* `DrainingIsOwned`: `DrainingOwned` is inductive relative to `TypeOK`. The hard
  part is that a reconciliation may remove a node in the middle of `ScaleDown`, and
  that only `ScaleDown` makes a node DRAINING, so nobody else must know.

`DeliveryProofs`

* `TypeCorrect`.
* `JobsAreNotLost` from `AckEarned`: a handler about to acknowledge has a 2xx answer
  or a stored envelope. `NoLoss` alone is not inductive, because an
  acknowledgement removes the message whatever its handler did before.
* `OneHandlerPerJob`, if `lapse` is not among the faults, from `Owned`: a live
  handler's delivery is the last one and its message is pending. That one job has
  one handler follows; alone it is not inductive, since a fetch could add a second.
* `ImplementsPromise`: with `NoLoss` and `AckEarned`, each step maps to a step of
  `JobPromise` for one job (`JobStep`, `Others`) or to a stutter.
* `TokensAreAccounted`, `ConcurrencyIsBounded` from `Tokens`: the count of tokens,
  that it never exceeds the channel's capacity, and that a process which is down has
  no loop.

* `OutcomeIsUnique`, if only stops, a refusing dead-letter queue and deliveries that do
  not arrive happen (`MildFaults`), from `Single`, relative to `Owned`: once a job has an
  outcome, it is removed or its handler is about to acknowledge it. The sum of the two
  counters alone is not inductive: nothing in it keeps a second handler away from
  a job that has been brought to an end.

`LeaseProofs`, for any number of orchestrators and agents and any configuration of
each, under `BootstrapAssumption`

* `TypeCorrect`: also that no agent is bound while the consumer is missing, and only a
  bound agent holds a message.
* `ConfigurationExpected`, if all processes are configured alike (`Agree`) and no query
  fails without reason (`infoFails`), from `Ensuring`: the resources an orchestrator has
  seen to are as configured, and a resource that somebody is about to create, or could
  not create, is missing or was made by somebody else with the same configuration. The
  second half makes the unchecked answer of the `recheck` right.
* `OwnershipIsRetained`, if besides `AckWait` was and is more than a second and no
  deployment makes it shorter (`LongLeases`), heartbeats are configured positive and
  none is lost, from `Leased`: the age of a lease and the time to the next beat add up
  to one period at most, and the period of an agent that is bound is less than
  `AckWait`, also after the rounding of `AckWait / 3`. TLC checks more on its instance:
  there one heartbeat in two may be lost.

`ScalingProofs`, under one of three assumptions on `Faults`. They are as weak as they can
be: for each theorem, each fault that is excluded alone (or the pair) gives TLC a
counterexample on the instance of the property's run.

| name | faults that are excluded | theorems |
|---|---|---|
| `Prompt` | `slowCalls` | `ScalesOneAtATime`, `CooldownHolds` |
| `Prompt`, `ConclusiveDestroy` | also `bootTimeout` together with `destroyFails` | `RemovesAfterDestruction`, `InstancesAreCapped` |
| `Reliable` | `slowCalls`, `vanish`, `bootTimeout` | `KeepsFloor`, `DeletesOnceGivenUp`; `DestroyingIsOwned` (also no `destroyFails`) |

None of these properties is inductive: they speak of operations, and whether a second
one may start is decided by where the *monitor* is. The argument has these layers, each
relative to the ones before:

1. `InTurn`: while an operation is under way it is the only one, and the monitor is in
   its sleep without a tick, or has just started a `ScaleUp` and still has the
   evaluation of a queue that is not empty before it, which starts nothing. It is
   kept because time passes only when no operation is at work (`Prompt`).
2. `Alone`: every tracked node but the one of the operation is READY. With `InTurn`
   it gives `OneScaleOperation`, and the cooldown follows: nothing moves
   `lastScaleEvent` between the gate and the record.
3. `ListingInHand`, `Cleared`: what a listing in use says of the cloud. It may name
   instances that have gone since, but misses none, since nothing is created while the
   monitor uses it; so what `Prune` is about to drop has no instance.
4. `Capped`, `Covered`: the cap is one on *everything that is known*, the table, the
   cloud and the listing together (`Known`). `Covered` says at which places of the
   monitor's round and of `ScaleUp` the table already accounts for every instance; it
   is why a restart with an empty table, or a creation whose answer was lost, is
   adopted before anything new is created.
5. `Existing`: an active node has an instance. Under `Reliable` neither reconciliation
   nor a goroutine after its operation changes which nodes are active, so the count a
   `ScaleDown` has compared with the floor still stands when it gives the node up
   (`Floor`); and a destroy call meets an instance (`DestroyMeets`). For the same
   reason an instance is deleted only when its node was given up: a wait ends early for
   none that exists, so the purge, which deletes whatever the table says, meets nothing.

`HistoryProofs`, under `Reliable`

* `ScalesOutWhenSustained` from `UpMeasured`, `ScalesInWhenIdle` (also no `outage`)
  from `DownMeasured`:
  a timer that runs is never older than the run of samples it stands for, but for the
  moment between a sample and its evaluation. `UpMeasured` also says that
  `scaleUpSince` runs only while a node is active: the 0 → 1 branch, which leaves it
  as it is, never meets it running. That is where `vanish` breaks the property.

`GatewayProofs`, for any numbers of clients, sends, jobs in hand and agents

* `AcceptedStaysQueued`, whatever fails, from `Acknowledged`: what the gateway has been
  told is stored is known to the stream, and what is on the wire or known to the
  stream belongs to a request that was published. The rest is `NoLoss` of
  `DeliveryProofs`, which holds since a step of the gateway is a `Submit` or a stutter
  for the queue.

`ClusterProofs`. The depth of the queue is substituted for the controller's `work`, and
the agents of the queue may crash (`"crash"` is added to the faults of its instance).

* `ImplementsDelivery`, whatever fails: every step of the cluster is a step of the
  `JobDelivery` so instantiated or a stutter. The deletion of an instance is the crash
  of its agent. So the theorems of `DeliveryProofs` hold (`PromiseHoldsInCluster`).
* `GatesHoldInCluster`, if the cloud's calls are prompt, instances do not end by
  themselves and the queue can be read (`SteadyCloud`): the controller's invariant
  `InControl`, which collects the layers above, speaks of no value of `work`, so a step
  of the queue keeps it (`WorkIsFree`).
* `SparesOneDelivery`, under every other fault of the cloud (listings, creations and
  deletions that fail, answers that are lost), if besides `SteadyCloud` a handler that
  lives brings its job to an end (`SteadyAgents`: no fault of an agent uses up a
  delivery). Two invariants meet: `Spare`, a job has lost one
  delivery at most, and `Guarded`, while a job that has lost one is not settled the
  controller is `Watchful`, that is, no scale-down is under way and none can follow from
  the sample in hand. A scale-down ends watchful (`EndsByScaleDown`), and with work in
  the queue the controller stays so (`WatchfulKept`).

Only model-checked: liveness (`ColdStartServed`, `NeverWedged`, `NoInstanceLeaks`,
`GhostsLeave`, `EveryJobEnds`, `AgentsServe`, `EverySettled`, `ScalesToZero`), which
needs fairness and ENABLED. Every safety property of a passing run is stated by a theorem.

## Not modelled

* Metrics, logs, health endpoints, dashboards and scripts: nothing reads them back.
* HTTP parsing and payloads: only whether a payload is JSON, and a request acceptable,
  matters.
* `ReadyAt`, `FindNodeByIP` and the drain lock of `NodeManager`: no code but the tests
  and the log lines reads or sets them.
* Environment variables and their defaults: data. What `loadConfig` enforces is the
  assumptions on the constants.
* Redelivery in the order of the stream: JetStream promises no order across agents, and
  the code relies on none.
* The graceful shutdown of the orchestrator is a crash.

## Plan

1. `Cluster` with a restart of the orchestrator: `Watchful` survives it, since the new
   process starts with a round of its own, but a `ScaleUp` under way does not; then
   `OneSpareDelivery` under a crash of the controller.
2. The scaler's operations as an abstract specification of their own (idle, up, down,
   cooling), which `OneScaleOperation` and `CooldownRespected` together amount to, and
   its refinement by `Orchestrator`, from the invariants of `ScalingProofs`.
3. `OneOutcome` under crashes: at most one outcome per delivery that was cut short.
