------------------------- MODULE DeliveryProperties -------------------------
(***************************************************************************)
(* What the job queue and its agents are expected to guarantee.            *)
(***************************************************************************)
EXTENDS JobDelivery

Messages == {"unknown", "available", "pending", "stranded", "removed"}

\* Every variable has its type; a message is available only while deliveries
\* are left and was not delivered before it was sent; a handler belongs to an
\* agent and to a delivery the stream has made.
TypeOK ==
  /\ stream \in [Jobs -> Messages]
  /\ deliveries \in [Jobs -> 0 .. MaxDeliver]
  /\ \A j \in Jobs : /\ stream[j] = "available" => deliveries[j] < MaxDeliver
                     /\ stream[j] = "unknown" => deliveries[j] = 0
  /\ dead \in [Jobs -> Nat] /\ completed \in [Jobs -> Nat]
  /\ life \in [Agents -> {"down", "up", "stopping", "draining"}]
  /\ shutting \in [Agents -> BOOLEAN]
  /\ loop \in [Agents -> {"acquire", "fetch", "stopped", "failed"}]
  /\ inflight \in [Agents -> Int]
  /\ hpc \in [Deliveries -> {"none", "start", "forward", "bury", "ack", "nak"}]
  /\ owner \in [Deliveries -> Agents \cup {NoAgent}]
  /\ \A d \in Deliveries :
       Live(d) => owner[d] \in Agents /\ d[2] <= deliveries[d[1]] /\ stream[d[1]] # "unknown"
  /\ attempt \in [Deliveries -> 0 .. MaxAttempts]

-----------------------------------------------------------------------------
(* Whatever fails *)

\* An accepted job never just disappears: it leaves the stream only after the
\* endpoint answered 2xx for it, or an envelope is in the dead-letter queue.
NoLoss ==
  \A j \in Jobs : stream[j] = "removed" => completed[j] > 0 \/ dead[j] > 0

\* The agents and the stream together keep the promise made to clients.
Promised(j) == CASE stream[j] = "unknown" -> "unknown"
                 [] stream[j] \in {"available", "pending"} -> "queued"
                 [] stream[j] = "stranded" -> "stranded"
                 [] stream[j] = "removed" -> "settled"

Reported(j) == (IF completed[j] > 0 THEN {"completed"} ELSE {}) \cup
               (IF dead[j] > 0 THEN {"buried"} ELSE {})

Promise == INSTANCE JobPromise
             WITH status <- [j \in Jobs |-> Promised(j)],
                  reported <- [j \in Jobs |-> Reported(j)]

KeepsPromise == Promise!Spec

\* Tokens are neither lost nor returned twice: the channel a.inflight holds one
\* for each handler, and one while the loop fetches.
TokensAccounted ==
  \A a \in Agents :
    inflight[a] = Cardinality(Working(a)) + (IF loop[a] = "fetch" THEN 1 ELSE 0)

\* "MAX_INFLIGHT=N -> at most N concurrent jobs per node".
ConcurrencyBounded == \A a \in Agents : Cardinality(Working(a)) <= MaxInFlight

-----------------------------------------------------------------------------
(* As long as the heartbeats arrive in time *)

\* "InProgress() heartbeats ... to prevent premature redelivery": the delivery
\* a handler works on is the job's only one, and not settled behind its back.
SoleHandler ==
  \A d \in Deliveries : Live(d) =>
    /\ d[2] = deliveries[d[1]] /\ stream[d[1]] = "pending"
    /\ \A e \in Deliveries \ {d} : e[1] = d[1] => ~Live(e)

\* Without crashes, lost acknowledgements or doubtful publishes a job has one
\* outcome, even with agents that stop and a dead-letter queue that fails.
OneOutcome == \A j \in Jobs : completed[j] + dead[j] <= 1

-----------------------------------------------------------------------------
(* The end of a job *)

\* "release ownership so another worker can retry if DLQ publish fails": a
\* message whose envelope could not be stored stays deliverable.
ReleasedForRetry ==
  [][ \A d \in Deliveries :
        hpc[d] = "bury" /\ hpc'[d] = "nak" => deliveries[d[1]] < MaxDeliver ]_vars

\* Whatever fails, a job is settled in the end or its deliveries are used up.
EveryJobEnds ==
  \A j \in Jobs : stream[j] # "unknown" ~> stream[j] \in {"removed", "stranded"}

=============================================================================
