----------------------------- MODULE Bootstrap -----------------------------
(***************************************************************************)
(* How the processes come up.  Orchestrators (Run, ensureStream and        *)
(* ensureConsumer of orchestrator.go) and agents (Run, ensureDLQStream and *)
(* subscribe of agent.go) find, create and update the streams and the      *)
(* consumer they share, in any order and at the same time, and read the    *)
(* consumer's configuration to choose how often to send heartbeats.        *)
(*                                                                         *)
(* The three "ensure" functions have one shape: ask for the resource, add  *)
(* it when the answer is an error, and when that fails ask once more.      *)
(* JetStream is external: adding what exists with the same configuration   *)
(* succeeds, with another one it fails; resources outlive the processes.   *)
(***************************************************************************)
EXTENDS Integers

CONSTANTS
  Orchestrators, Agents,
  Config,     \* process -> resource -> the configuration it asks for
  Heartbeat,  \* agent -> Config.HeartbeatInterval
  Second,     \* a second, in units of time
  Leftover,   \* resource -> what an earlier deployment may have left
  Faults

FaultKinds ==
  { "infoFails",    \* a query of the JetStream API fails
    "callFails",    \* a call that creates, updates or binds has no effect
    "answerLost",   \* it fails, for the caller, although it had its effect
    "stop",         \* a process ends, at any point
    "beatLost" }    \* an InProgress does not reach the server

Processes == Orchestrators \cup Agents

\* A configuration of the consumer is its AckWait, of a stream its subject.
Resources == {"jobs", "dlq", "consumer"}

Missing == 0

ASSUME BootstrapAssumption ==
  /\ Orchestrators \cap Agents = {}
  /\ Config \in [Processes -> [Resources -> Nat \ {Missing}]]
  /\ Leftover \in [Resources -> SUBSET (Nat \ {Missing})]
  /\ Heartbeat \in [Agents -> Int] /\ Second \in Nat \ {0}
  /\ Faults \subseteq FaultKinds

VARIABLES
  have,     \* JetStream: resource -> its configuration, or Missing
  step,     \* process -> its next step
  on,       \* process -> the resource it ensures
  interval  \* agent -> heartbeatInterval

bootVars == <<have, step, on, interval>>

\* A process is down before it starts and after an error, stopped when it was
\* killed.
Down == {"down", "stopped"}

Steps == Down \cup {"info", "update", "add", "recheck", "bind", "interval", "ready"}

Ready(p) == step[p] = "ready"

AckWait == have["consumer"]

BootInit ==
  /\ have \in [Resources -> UNION {Leftover[r] : r \in Resources} \cup {Missing}]
  /\ \A r \in Resources : have[r] \in Leftover[r] \cup {Missing}
  /\ have["consumer"] # Missing => have["jobs"] # Missing  \* it is part of it
  /\ step = [p \in Processes |-> "down"]
  /\ on = [p \in Processes |-> "jobs"]
  /\ interval = [a \in Agents |-> Heartbeat[a]]

-----------------------------------------------------------------------------

Goto(p, next) == step' = [step EXCEPT ![p] = next]

\* Run begins: an orchestrator with the jobs stream, an agent with the
\* dead-letter stream.
Start(p) ==
  /\ step[p] \in Down
  /\ Goto(p, "info")
  /\ on' = [on EXCEPT ![p] = IF p \in Agents THEN "dlq" ELSE "jobs"]
  /\ interval' = [a \in Agents |-> IF a = p THEN Heartbeat[a] ELSE interval[a]]
  /\ UNCHANGED have

\* Run returns an error; the container's restart policy starts it again.
Exit(p) == Goto(p, "down") /\ UNCHANGED on

\* The resource at hand is taken to be as it should; on to what comes next.
Ensured(p) ==
  \/ /\ p \in Agents
     /\ Goto(p, "bind") /\ UNCHANGED on
  \/ /\ p \in Orchestrators /\ on[p] = "consumer"
     /\ Goto(p, "ready") /\ UNCHANGED on
  \/ /\ p \in Orchestrators /\ on[p] # "consumer"
     /\ Goto(p, "info")
     /\ on' = [on EXCEPT ![p] = IF @ = "jobs" THEN "dlq" ELSE "consumer"]

InfoFails == "infoFails" \in Faults
CallFails == "callFails" \in Faults

\* Wrong: what exists is taken as it is (ExpectedConfig).
InfoWithoutCompare(p) ==
  /\ step[p] = "info"
  /\ IF have[on[p]] = Missing THEN Goto(p, "add") /\ UNCHANGED on ELSE Ensured(p)
  /\ UNCHANGED <<have, interval>>

\* StreamInfo or ConsumerInfo.  Any error is taken to mean that the resource is
\* missing.  Only an orchestrator compares what it finds.
Info(p) ==
  LET r == on[p]
      satisfied == have[r] # Missing /\ (p \in Agents \/ have[r] = Config[p][r])
  IN  /\ step[p] = "info"
      /\ \/ (have[r] = Missing \/ InfoFails) /\ Goto(p, "add") /\ UNCHANGED on
         \/ satisfied /\ Ensured(p)
         \/ have[r] # Missing /\ ~satisfied /\ Goto(p, "update") /\ UNCHANGED on
      /\ UNCHANGED <<have, interval>>

\* Wrong: a resource that differs is an error (AgentsServe).
UpdateNot(p) == step[p] = "update" /\ Exit(p) /\ UNCHANGED <<have, interval>>

\* UpdateStream or UpdateConsumer: an error ends the process.
Update(p) ==
  /\ step[p] = "update"
  /\ \/ /\ have' = [have EXCEPT ![on[p]] = Config[p][on[p]]]
        /\ Ensured(p) \/ ("answerLost" \in Faults /\ Exit(p))
     \/ CallFails /\ Exit(p) /\ UNCHANGED have
  /\ UNCHANGED interval

\* AddStream or AddConsumer.
Add(p) ==
  LET r == on[p]
  IN  /\ step[p] = "add"
      /\ \/ /\ have[r] \in {Missing, Config[p][r]}
            /\ have' = [have EXCEPT ![r] = Config[p][r]]
            /\ \/ Ensured(p)
               \/ "answerLost" \in Faults /\ Goto(p, "recheck") /\ UNCHANGED on
         \/ /\ have[r] \notin {Missing, Config[p][r]} \/ CallFails
            /\ Goto(p, "recheck") /\ UNCHANGED <<have, on>>
      /\ UNCHANGED interval

\* "another instance creates the stream first": whatever exists now will do.
Recheck(p) ==
  /\ step[p] = "recheck"
  /\ \/ have[on[p]] # Missing /\ Ensured(p)
     \/ (have[on[p]] = Missing \/ CallFails) /\ Exit(p)
  /\ UNCHANGED <<have, interval>>

-----------------------------------------------------------------------------
(* subscribe *)

\* Wrong: subscribes whether or not the consumer exists (TypeOK).
BindBlindly(a) ==
  /\ step[a] = "bind"
  /\ Goto(a, "interval")
  /\ UNCHANGED <<have, on, interval>>

\* PullSubscribe with Bind asks for the consumer and never creates it.
Bind(a) ==
  /\ step[a] = "bind"
  /\ \/ AckWait # Missing /\ Goto(a, "interval")
     \/ (AckWait = Missing \/ CallFails) /\ Goto(a, "down")
  /\ UNCHANGED <<have, on, interval>>

AtLeastASecond(t) == IF t < Second THEN Second ELSE t

\* Wrong: an interval of exactly AckWait is left alone (OwnershipRetained).
AdjustedAboveOnly(h, w) == IF h > w THEN AtLeastASecond(w \div 3) ELSE h

\* The interval of an agent that asks for h when the consumer's AckWait is w.
Adjusted(h, w) == IF h >= w THEN AtLeastASecond(w \div 3) ELSE h

\* ConsumerInfo; when it fails the interval is left as configured.
ChooseInterval(a) ==
  /\ step[a] = "interval"
  /\ \E i \in {Adjusted(interval[a], AckWait)} \cup (IF InfoFails THEN {interval[a]} ELSE {}) :
       interval' = [interval EXCEPT ![a] = i]
  /\ Goto(a, "ready")
  /\ UNCHANGED <<have, on>>

Stop(p) ==
  /\ "stop" \in Faults /\ step[p] \notin Down
  /\ Goto(p, "stopped")
  /\ UNCHANGED <<have, on, interval>>

\* A creation, an update or a binding succeeds.
Answered(p) ==
  /\ step[p] \in {"update", "add", "bind"}
  /\ Update(p) \/ Add(p) \/ (p \in Agents /\ Bind(p))
  /\ step'[p] \notin Down \cup {"recheck"}

Boot(p) ==
  \/ Start(p) \/ Info(p) \/ Update(p) \/ Add(p) \/ Recheck(p)
  \/ p \in Agents /\ (Bind(p) \/ ChooseInterval(p))

=============================================================================
