------------------------------- MODULE Lease -------------------------------
(***************************************************************************)
(* The lease an agent has on a message it works on: JetStream gives the    *)
(* message to somebody else when AckWait passes without an acknowledgement *)
(* or a heartbeat (startAckProgressHeartbeat of agent.go).  AckWait and    *)
(* the interval of the heartbeats are settled by Bootstrap, and AckWait    *)
(* may change under a running agent.  One message per agent is enough:     *)
(* every handler has a heartbeat of its own.                               *)
(***************************************************************************)
EXTENDS Bootstrap

VARIABLES
  age,    \* agent -> time since its lease was renewed, NoLease without one
  beat,   \* agent -> time until its ticker fires
  missed  \* agent -> the last heartbeat did not arrive

lease == <<age, beat, missed>>
vars  == <<bootVars, lease>>

NoLease == -1

Holding(a) == age[a] # NoLease

Init ==
  /\ BootInit
  /\ age = [a \in Agents |-> NoLease]
  /\ beat = [a \in Agents |-> 0]
  /\ missed = [a \in Agents |-> FALSE]

\* The period of the ticker.
Period(i) == IF i <= 0 THEN 5 * Second ELSE AtLeastASecond(i)

\* A handler starts on a message it was given, and its ticker with it.
Deliver(a) ==
  /\ Ready(a) /\ ~Holding(a)
  /\ age' = [age EXCEPT ![a] = 0]
  /\ beat' = [beat EXCEPT ![a] = Period(interval[a])]
  /\ UNCHANGED <<bootVars, missed>>

\* InProgress: an error is logged and the next tick awaited.  No two in a row
\* are lost (a bound on the fault).
Beat(a) ==
  /\ Holding(a) /\ beat[a] = 0
  /\ beat' = [beat EXCEPT ![a] = Period(interval[a])]
  /\ \/ /\ age' = [age EXCEPT ![a] = 0]
        /\ missed' = [missed EXCEPT ![a] = FALSE]
     \/ /\ "beatLost" \in Faults /\ ~missed[a]
        /\ missed' = [missed EXCEPT ![a] = TRUE]
        /\ UNCHANGED age
  /\ UNCHANGED bootVars

Released(p) ==
  /\ age' = [a \in Agents |-> IF a = p THEN NoLease ELSE age[a]]
  /\ beat' = [a \in Agents |-> IF a = p THEN 0 ELSE beat[a]]
  /\ missed' = [a \in Agents |-> IF a = p THEN FALSE ELSE missed[a]]

\* The handler is done and stops its heartbeat.
Finish(a) == Holding(a) /\ Released(a) /\ UNCHANGED bootVars

\* A unit of time passes.  A ticker that is due fires before the next one.
Tick ==
  /\ \E a \in Agents : Holding(a)
  /\ \A a \in Agents : Holding(a) => beat[a] > 0
  /\ age' = [a \in Agents |-> IF Holding(a) THEN age[a] + 1 ELSE age[a]]
  /\ beat' = [a \in Agents |-> IF Holding(a) THEN beat[a] - 1 ELSE beat[a]]
  /\ UNCHANGED <<bootVars, missed>>

Next ==
  \/ \E p \in Processes : \/ Boot(p) /\ UNCHANGED lease
                          \/ Stop(p) /\ Released(p)
  \/ \E a \in Agents : Deliver(a) \/ Beat(a) \/ Finish(a)
  \/ Tick

Spec == Init /\ [][Next]_vars

\* Processes run, and are started again when they end; JetStream does not fail
\* every call.
Fairness ==
  /\ \A p \in Processes : WF_vars(Boot(p) /\ UNCHANGED lease)
  /\ SF_vars(\E p \in Processes : Answered(p) /\ UNCHANGED lease)

FairSpec == Spec /\ Fairness

-----------------------------------------------------------------------------

\* Every variable has its type; only an agent that is bound holds a message.
TypeOK ==
  /\ have \in [Resources -> Nat]
  /\ step \in [Processes -> Steps]
  /\ on \in [Processes -> Resources]
  /\ interval \in [Agents -> Int]
  /\ age \in [Agents -> Nat \cup {NoLease}]
  /\ beat \in [Agents -> Nat] /\ missed \in [Agents -> BOOLEAN]
  /\ \A a \in Agents : Holding(a) => Ready(a)
  /\ \A a \in Agents : step[a] \in {"interval", "ready"} => AckWait # Missing

\* "ensures jobs stream, DLQ stream, and durable consumer exist with expected
\* config" (README.md): they do from the moment an orchestrator is up, whoever
\* creates them at the same time and whatever was there before.
ExpectedConfig ==
  \A o \in Orchestrators : Ready(o) => have = Config[o]

\* "Heartbeat must be shorter than consumer AckWait so ownership is retained"
\* (agent.go): a lease does not run out under a handler that lives, even when
\* a heartbeat is lost.
OwnershipRetained == \A a \in Agents : Holding(a) => age[a] < AckWait

\* An agent that comes up before everything it needs is bound in the end, once
\* processes are no longer killed.
AgentsServe ==
  <>[](\A p \in Processes : step[p] # "stopped") => \A a \in Agents : <>[]Ready(a)

=============================================================================
