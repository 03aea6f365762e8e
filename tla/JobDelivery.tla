---------------------------- MODULE JobDelivery ----------------------------
(***************************************************************************)
(* The way of a job from api/main.go through the JetStream work queue to   *)
(* the agents (nats-agent/agent.go) and out: acknowledged, or copied to    *)
(* the dead-letter queue and acknowledged.                                 *)
(*                                                                         *)
(* JetStream is external: it is modelled as far as the code relies on it,  *)
(* a stream with WorkQueuePolicy and one durable consumer with AckExplicit,*)
(* AckWait and MaxDeliver (orchestrator.go, desiredConsumerConfig).  Each  *)
(* delivery of a job has a handler of its own, the goroutine that          *)
(* consumeLoop starts; a handler is named by its delivery.                 *)
(***************************************************************************)
EXTENDS Integers, FiniteSets

CONSTANTS
  Jobs,         \* bound: the jobs ever submitted
  Malformed,    \* those whose payload is not JSON (not sent by the api)
  Agents,       \* one per GPU node
  MaxInFlight,  \* Config.MaxInFlight of the agents
  MaxAttempts,  \* Config.MaxDeliver of the agents: local retries
  MaxDeliver,   \* MaxDeliver of the consumer
  Faults

FaultKinds ==
  { "ackLost",       \* an Ack or Nak does not reach the server
    "dlqFails",      \* publishing to the dead-letter queue fails
    "dlqUncertain",  \* it fails although the envelope was stored
    "deliveryLost",  \* a message sent to an agent does not get there
    "fetchFails",    \* Fetch returns an error other than a timeout
    "stop",          \* an agent is told to stop (SIGTERM)
    "drainTimeout",  \* DrainTimeout may pass before the handlers are done
    "crash",         \* an agent, or its node, dies
    "lapse" }        \* AckWait may pass although the handler lives

ASSUME JobDeliveryAssumption ==
  /\ IsFiniteSet(Jobs) /\ Malformed \subseteq Jobs
  /\ {MaxInFlight, MaxAttempts, MaxDeliver} \subseteq Nat \ {0}
  /\ Faults \subseteq FaultKinds

VARIABLES
  stream,      \* JetStream: job -> its message
  deliveries,  \* JetStream: job -> how often it was delivered
  dead,        \* the dead-letter queue: job -> envelopes stored
  life,        \* agent -> where Run is
  shutting,    \* agent -> shuttingDown
  loop,        \* agent -> where consumeLoop is
  inflight,    \* agent -> tokens in the channel a.inflight
  hpc,         \* delivery -> next step of its handler
  owner,       \* delivery -> the agent it went to, NoAgent for none
  attempt,     \* delivery -> forwarding attempt, from 1
  completed    \* job -> 2xx answers received

queue    == <<stream, deliveries, dead>>
agents   == <<life, shutting, loop, inflight>>
handlers == <<hpc, owner, attempt>>
vars     == <<queue, agents, handlers, completed>>

NoAgent == "nobody"

Deliveries == Jobs \X (1 .. MaxDeliver)

Live(d) == hpc[d] # "none"

Working(a) == {d \in Deliveries : Live(d) /\ owner[d] = a}

Init ==
  /\ stream = [j \in Jobs |-> "unknown"]
  /\ deliveries = [j \in Jobs |-> 0] /\ dead = [j \in Jobs |-> 0]
  /\ life = [a \in Agents |-> "down"] /\ shutting = [a \in Agents |-> FALSE]
  /\ loop = [a \in Agents |-> "stopped"] /\ inflight = [a \in Agents |-> 0]
  /\ hpc = [d \in Deliveries |-> "none"]
  /\ owner = [d \in Deliveries |-> NoAgent]
  /\ attempt = [d \in Deliveries |-> 0]
  /\ completed = [j \in Jobs |-> 0]

-----------------------------------------------------------------------------
(* The stream and its consumer *)

\* handleCreateJob: the job is in the stream, whatever the client is told.
Submit(j) ==
  /\ stream[j] = "unknown"
  /\ stream' = [stream EXCEPT ![j] = "available"]
  /\ UNCHANGED <<deliveries, dead, agents, handlers, completed>>

\* Wrong: a consumer without MaxDeliver (TypeOK).
ReturnedForever(j) == "available"

\* Delivered and neither acknowledged nor renewed: the message is available
\* again, or stays undelivered for good after MaxDeliver deliveries.
Returned(j) == IF deliveries[j] < MaxDeliver THEN "available" ELSE "stranded"

\* Wrong: heartbeats rarer than AckWait (SoleHandler).
AckWaitTooShort(j) ==
  /\ stream[j] = "pending"
  /\ stream' = [stream EXCEPT ![j] = Returned(j)]
  /\ UNCHANGED <<deliveries, dead, agents, handlers, completed>>

\* AckWait passes.  A live handler's heartbeat prevents it.
AckWaitExpires(j) ==
  /\ stream[j] = "pending"
  /\ ~Live(<<j, deliveries[j]>>) \/ "lapse" \in Faults
  /\ stream' = [stream EXCEPT ![j] = Returned(j)]
  /\ UNCHANGED <<deliveries, dead, agents, handlers, completed>>

\* An acknowledgement that arrives removes the message, whichever delivery it
\* is for; a negative one releases it if it is pending.
Acked(j) ==
  \/ stream' = [stream EXCEPT ![j] = "removed"]
  \/ "ackLost" \in Faults /\ UNCHANGED stream

\* Wrong: terminates the message instead (KeepsPromise).
Termed(j) == stream' = [stream EXCEPT ![j] = "removed"]

Naked(j) ==
  \/ stream' = IF stream[j] = "pending"
               THEN [stream EXCEPT ![j] = Returned(j)] ELSE stream
  \/ "ackLost" \in Faults /\ UNCHANGED stream

-----------------------------------------------------------------------------
(* consumeLoop *)

\* Run has subscribed and starts the loop.
Start(a) ==
  /\ life[a] = "down"
  /\ life' = [life EXCEPT ![a] = "up"]
  /\ loop' = [loop EXCEPT ![a] = "acquire"]
  /\ UNCHANGED <<queue, shutting, inflight, handlers, completed>>

\* Wrong: one token too many (ConcurrencyBounded).
AcquireOneMore(a) ==
  /\ loop[a] = "acquire" /\ inflight[a] <= MaxInFlight
  /\ inflight' = [inflight EXCEPT ![a] = @ + 1]
  /\ loop' = [loop EXCEPT ![a] = "fetch"]
  /\ UNCHANGED <<queue, life, shutting, handlers, completed>>

\* The select of consumeLoop: a token is free.  With the context cancelled as
\* well, either branch may be taken.
Acquire(a) ==
  /\ loop[a] = "acquire" /\ inflight[a] < MaxInFlight
  /\ inflight' = [inflight EXCEPT ![a] = @ + 1]
  /\ loop' = [loop EXCEPT ![a] = "fetch"]
  /\ UNCHANGED <<queue, life, shutting, handlers, completed>>

StopLoop(a) ==
  /\ loop[a] = "acquire" /\ life[a] \in {"stopping", "draining"}
  /\ loop' = [loop EXCEPT ![a] = "stopped"]
  /\ UNCHANGED <<queue, life, shutting, inflight, handlers, completed>>

\* Fetch returns a message: its handler starts and owns the token.  Fetch does
\* not know of the context, so this may come after a SIGTERM.
Fetch(a, j) ==
  LET d == <<j, deliveries[j] + 1>>
  IN  /\ loop[a] = "fetch" /\ stream[j] = "available"
      /\ stream' = [stream EXCEPT ![j] = "pending"]
      /\ deliveries' = [deliveries EXCEPT ![j] = @ + 1]
      /\ hpc' = [hpc EXCEPT ![d] = "start"]
      /\ owner' = [owner EXCEPT ![d] = a]
      /\ loop' = [loop EXCEPT ![a] = "acquire"]
      /\ UNCHANGED <<dead, life, shutting, inflight, attempt, completed>>

\* The server answers a pull, but the agent or its connection is gone.
DeliveryLost(j) ==
  /\ "deliveryLost" \in Faults
  /\ stream[j] = "available" /\ \E a \in Agents : loop[a] = "fetch"
  /\ stream' = [stream EXCEPT ![j] = "pending"]
  /\ deliveries' = [deliveries EXCEPT ![j] = @ + 1]
  /\ UNCHANGED <<dead, agents, handlers, completed>>

\* Wrong: keeps the token after a timeout (TokensAccounted, EveryJobEnds).
FetchNothingLeaks(a) ==
  /\ loop[a] = "fetch"
  /\ loop' = [loop EXCEPT ![a] = "acquire"]
  /\ UNCHANGED <<queue, life, shutting, inflight, handlers, completed>>

\* Fetch returns without one: after a timeout the loop goes on; after another
\* error it ends, with nil once the context is cancelled.
FetchNothing(a) ==
  /\ loop[a] = "fetch"
  /\ inflight' = [inflight EXCEPT ![a] = @ - 1]
  /\ \/ loop' = [loop EXCEPT ![a] = "acquire"]
     \/ /\ life[a] \in {"stopping", "draining"}
        /\ loop' = [loop EXCEPT ![a] = "stopped"]
     \/ /\ life[a] = "up" /\ "fetchFails" \in Faults
        /\ loop' = [loop EXCEPT ![a] = "failed"]
  /\ UNCHANGED <<queue, life, shutting, handlers, completed>>

-----------------------------------------------------------------------------
(* processMessage of delivery d *)

Goto(d, next) == hpc' = [hpc EXCEPT ![d] = next]

\* The deferred part: the token goes back.
Return(d) ==
  /\ hpc' = [hpc EXCEPT ![d] = "none"]
  /\ owner' = [owner EXCEPT ![d] = NoAgent]
  /\ attempt' = [attempt EXCEPT ![d] = 0]
  /\ inflight' = [inflight EXCEPT ![owner[d]] = @ - 1]

\* Wrong: what is not JSON is released for another agent (EverySettled).
BeginReleasing(d) ==
  /\ hpc[d] = "start"
  /\ IF shutting[owner[d]] \/ d[1] \in Malformed
     THEN Goto(d, "nak") /\ UNCHANGED attempt
     ELSE Goto(d, "forward") /\ attempt' = [attempt EXCEPT ![d] = 1]
  /\ UNCHANGED <<queue, agents, owner, completed>>

\* The entry: nack when shutting down, bury what is not JSON, else forward.
Begin(d) ==
  /\ hpc[d] = "start"
  /\ IF shutting[owner[d]] THEN Goto(d, "nak") /\ UNCHANGED attempt
     ELSE IF d[1] \in Malformed THEN Goto(d, "bury") /\ UNCHANGED attempt
     ELSE Goto(d, "forward") /\ attempt' = [attempt EXCEPT ![d] = 1]
  /\ UNCHANGED <<queue, agents, owner, completed>>

\* forwardToAI answers 2xx.
ForwardSucceeds(d) ==
  /\ hpc[d] = "forward"
  /\ completed' = [completed EXCEPT ![d[1]] = @ + 1]
  /\ Goto(d, "ack")
  /\ UNCHANGED <<queue, agents, owner, attempt>>

\* It answers 4xx: the job is not retried.
ForwardRejected(d) ==
  /\ hpc[d] = "forward"
  /\ Goto(d, "bury")
  /\ UNCHANGED <<queue, agents, owner, attempt, completed>>

\* It fails in any other way: the job is retried while attempts are left.
ForwardFails(d) ==
  /\ hpc[d] = "forward"
  /\ IF attempt[d] < MaxAttempts
     THEN attempt' = [attempt EXCEPT ![d] = @ + 1] /\ UNCHANGED hpc
     ELSE Goto(d, "bury") /\ UNCHANGED attempt
  /\ UNCHANGED <<queue, agents, owner, completed>>

\* Wrong: acknowledged whether or not the envelope is stored (NoLoss), or
\* released although it is (OneOutcome).
BuryIgnoringErrors(d) ==
  /\ hpc[d] = "bury"
  /\ Goto(d, "ack")
  /\ \/ dead' = [dead EXCEPT ![d[1]] = @ + 1]
     \/ "dlqFails" \in Faults /\ UNCHANGED dead
  /\ UNCHANGED <<stream, deliveries, agents, owner, attempt, completed>>

BuryReleasing(d) ==
  /\ hpc[d] = "bury"
  /\ Goto(d, "nak")
  /\ dead' = [dead EXCEPT ![d[1]] = @ + 1]
  /\ UNCHANGED <<stream, deliveries, agents, owner, attempt, completed>>

\* publishToDLQ; when it fails the message is released instead.
Bury(d) ==
  /\ hpc[d] = "bury"
  /\ \/ dead' = [dead EXCEPT ![d[1]] = @ + 1] /\ Goto(d, "ack")
     \/ "dlqFails" \in Faults /\ UNCHANGED dead /\ Goto(d, "nak")
     \/ /\ "dlqUncertain" \in Faults
        /\ dead' = [dead EXCEPT ![d[1]] = @ + 1]
        /\ Goto(d, "nak")
  /\ UNCHANGED <<stream, deliveries, agents, owner, attempt, completed>>

\* msg.Ack and the return: an error is only logged.
Ack(d) ==
  /\ hpc[d] = "ack"
  /\ Acked(d[1])
  /\ Return(d)
  /\ UNCHANGED <<deliveries, dead, life, shutting, loop, completed>>

Nak(d) ==
  /\ hpc[d] = "nak"
  /\ Naked(d[1])
  /\ Return(d)
  /\ UNCHANGED <<deliveries, dead, life, shutting, loop, completed>>

Handle(d) ==
  \/ Begin(d) \/ ForwardSucceeds(d) \/ ForwardRejected(d) \/ ForwardFails(d)
  \/ Bury(d) \/ Ack(d) \/ Nak(d)

-----------------------------------------------------------------------------
(* The end of an agent *)

\* SIGTERM cancels the context.
Stop(a) ==
  /\ "stop" \in Faults /\ life[a] = "up"
  /\ life' = [life EXCEPT ![a] = "stopping"]
  /\ UNCHANGED <<queue, shutting, loop, inflight, handlers, completed>>

\* The select of Run: the context's branch announces the shutdown; the branch
\* of a loop that returned nil does not.
Drain(a) ==
  /\ life[a] = "stopping"
  /\ \/ shutting' = [shutting EXCEPT ![a] = TRUE]
     \/ loop[a] = "stopped" /\ UNCHANGED shutting
  /\ life' = [life EXCEPT ![a] = "draining"]
  /\ UNCHANGED <<queue, loop, inflight, handlers, completed>>

\* The process is gone, its handlers with it, wherever they were.
Gone(a) ==
  /\ life' = [life EXCEPT ![a] = "down"]
  /\ shutting' = [shutting EXCEPT ![a] = FALSE]
  /\ loop' = [loop EXCEPT ![a] = "stopped"]
  /\ inflight' = [inflight EXCEPT ![a] = 0]
  /\ hpc' = [d \in Deliveries |-> IF d \in Working(a) THEN "none" ELSE hpc[d]]
  /\ owner' = [d \in Deliveries |-> IF d \in Working(a) THEN NoAgent ELSE owner[d]]
  /\ attempt' = [d \in Deliveries |-> IF d \in Working(a) THEN 0 ELSE attempt[d]]
  /\ UNCHANGED <<queue, completed>>

\* waitForInflight: the handlers are done, or DrainTimeout has passed.  It does
\* not wait for the loop, which may still be in Fetch.
Exit(a) ==
  /\ life[a] = "draining"
  /\ Working(a) = {} \/ "drainTimeout" \in Faults
  /\ Gone(a)

\* A failed loop makes Run return at once, without waitForInflight.  After a
\* SIGTERM as well, as long as the select has not taken the context's branch.
ExitOnError(a) ==
  /\ life[a] \in {"up", "stopping"} /\ loop[a] = "failed"
  /\ Gone(a)

Crash(a) == "crash" \in Faults /\ life[a] # "down" /\ Gone(a)

\* The two goroutines of an agent that serve no particular delivery.
Run(a)  == Start(a) \/ Drain(a) \/ Exit(a) \/ ExitOnError(a)
Loop(a) == Acquire(a) \/ StopLoop(a) \/ FetchNothing(a)

Next ==
  \/ \E j \in Jobs : Submit(j) \/ AckWaitExpires(j) \/ DeliveryLost(j)
  \/ \E a \in Agents : Run(a) \/ Loop(a) \/ Stop(a) \/ Crash(a)
  \/ \E a \in Agents, j \in Jobs : Fetch(a, j)
  \/ \E d \in Deliveries : Handle(d)

Spec == Init /\ [][Next]_vars

\* Agents are started again when they stop (restart: unless-stopped) and run,
\* and are not stopped every time before they pull; the pulls reach a message
\* that is available again and again; AckWait passes.
Fairness ==
  /\ \A a \in Agents : WF_vars(Run(a)) /\ WF_vars(Loop(a)) /\ SF_vars(Acquire(a))
  /\ \A j \in Jobs : SF_vars(\E a \in Agents : Fetch(a, j)) /\ WF_vars(AckWaitExpires(j))
  /\ \A d \in Deliveries : WF_vars(Handle(d))

FairSpec == Spec /\ Fairness

=============================================================================
