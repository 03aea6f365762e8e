--------------------------- MODULE DeliveryProofs ---------------------------
(***************************************************************************)
(* What TLC checks of JobDelivery on small instances, proved for every     *)
(* number of jobs, agents, tokens, attempts and deliveries.                *)
(***************************************************************************)
EXTENDS DeliveryProperties, FiniteSetTheorems, TLAPS

USE DEF queue, agents, handlers, Deliveries, Live

\* The numbers of the configuration are positive.
LEMMA Numbers ==
  /\ MaxInFlight \in Nat \ {0} /\ MaxAttempts \in Nat \ {0} /\ MaxDeliver \in Nat \ {0}
BY JobDeliveryAssumption

\* A message that is released is available only while it may be delivered.
LEMMA ReturnedType ==
  ASSUME NEW j \in Jobs
  PROVE  /\ Returned(j) \in {"available", "stranded"}
         /\ Returned(j) = "available" => deliveries[j] < MaxDeliver
BY DEF Returned

\* The system starts with every variable in its type.
LEMMA TypeInit == Init => TypeOK
BY Numbers DEF Init, TypeOK, Messages

\* A delivery of an available message is counted, and stays below MaxDeliver.
LEMMA Counted ==
  ASSUME TypeOK, NEW j \in Jobs, stream[j] = "available",
         deliveries' = [deliveries EXCEPT ![j] = @ + 1]
  PROVE  /\ deliveries[j] \in Nat /\ deliveries[j] + 1 \in 1 .. MaxDeliver
         /\ deliveries' \in [Jobs -> 0 .. MaxDeliver]
         /\ \A i \in Jobs : deliveries[i] \in Nat /\ deliveries'[i] \in Nat
                            /\ deliveries[i] <= deliveries'[i]
<1>1. deliveries \in [Jobs -> 0 .. MaxDeliver] /\ deliveries[j] < MaxDeliver
  BY DEF TypeOK
<1>2. deliveries[j] \in Nat /\ deliveries[j] + 1 \in 1 .. MaxDeliver
  BY <1>1, Numbers
<1>3. \A i \in Jobs : deliveries'[i] = IF i = j THEN deliveries[j] + 1 ELSE deliveries[i]
  BY <1>1
<1>4. QED
  BY <1>1, <1>2, <1>3, Numbers

\* A step of the stream keeps every variable in its type.
LEMMA StreamTypes ==
  ASSUME TypeOK, NEW j \in Jobs, Submit(j) \/ AckWaitExpires(j) \/ DeliveryLost(j)
  PROVE  TypeOK'
<1> USE Numbers DEF TypeOK, Messages
<1>1. CASE Submit(j)
  BY <1>1 DEF Submit
<1>2. CASE AckWaitExpires(j)
  <2>1. /\ stream' = [stream EXCEPT ![j] = Returned(j)]
        /\ UNCHANGED <<deliveries, dead, agents, handlers, completed>>
    BY <1>2 DEF AckWaitExpires
  <2>2. QED
    BY <2>1, ReturnedType
<1>3. CASE DeliveryLost(j)
  <2>1. /\ stream[j] = "available"
        /\ stream' = [stream EXCEPT ![j] = "pending"]
        /\ deliveries' = [deliveries EXCEPT ![j] = @ + 1]
        /\ UNCHANGED <<dead, agents, handlers, completed>>
    BY <1>3 DEF DeliveryLost
  <2>2. /\ deliveries' \in [Jobs -> 0 .. MaxDeliver]
        /\ \A i \in Jobs :
             /\ deliveries[i] \in Nat /\ deliveries'[i] \in Nat
             /\ deliveries[i] <= deliveries'[i]
    BY <2>1, Counted
  <2>3. \A d \in Deliveries : Live(d) => d[2] <= deliveries'[d[1]]
    BY <2>2
  <2>4. /\ stream' \in [Jobs -> Messages]
        /\ \A i \in Jobs :
             /\ stream'[i] = "available" => i # j /\ stream[i] = "available"
             /\ stream'[i] = "unknown" => i # j /\ stream[i] = "unknown"
    BY <2>1
  <2>5. \A i \in Jobs \ {j} : deliveries'[i] = deliveries[i]
    BY <2>1
  <2>6. QED
    BY <2>1, <2>2, <2>3, <2>4, <2>5
<1>4. QED
  BY <1>1, <1>2, <1>3

\* So does a step of an agent.
LEMMA AgentTypes ==
  ASSUME TypeOK, NEW a \in Agents, Run(a) \/ Loop(a) \/ Stop(a) \/ Crash(a)
  PROVE  TypeOK'
<1> USE Numbers DEF TypeOK, Messages
<1>1. CASE Start(a)
  BY <1>1 DEF Start
<1>2. CASE Drain(a)
  BY <1>2 DEF Drain
<1>3. CASE Gone(a)
  BY <1>3 DEF Gone
<1>4. CASE Acquire(a)
  BY <1>4 DEF Acquire
<1>5. CASE StopLoop(a)
  BY <1>5 DEF StopLoop
<1>6. CASE FetchNothing(a)
  BY <1>6 DEF FetchNothing
<1>7. CASE Stop(a)
  BY <1>7 DEF Stop
<1>8. QED
  BY <1>1, <1>2, <1>3, <1>4, <1>5, <1>6, <1>7
     DEF Run, Loop, Exit, ExitOnError, Crash

\* The handler that Fetch starts is new: no handler of its delivery is alive.
LEMMA FetchedIsNew ==
  ASSUME TypeOK, NEW a \in Agents, NEW j \in Jobs, Fetch(a, j)
  PROVE  /\ <<j, deliveries[j] + 1>> \in Deliveries
         /\ ~Live(<<j, deliveries[j] + 1>>)
<1>1. deliveries[j] \in Nat /\ deliveries[j] + 1 \in 1 .. MaxDeliver
  BY Counted DEF Fetch
<1>2. ~(deliveries[j] + 1 <= deliveries[j])
  BY <1>1
<1>3. QED
  BY <1>1, <1>2 DEF TypeOK

\* So does the delivery of a message.
LEMMA FetchTypes ==
  ASSUME TypeOK, NEW a \in Agents, NEW j \in Jobs, Fetch(a, j) PROVE TypeOK'
<1> DEFINE e == <<j, deliveries[j] + 1>>
<1>1. /\ stream[j] = "available"
      /\ stream' = [stream EXCEPT ![j] = "pending"]
      /\ deliveries' = [deliveries EXCEPT ![j] = @ + 1]
      /\ hpc' = [hpc EXCEPT ![e] = "start"]
      /\ owner' = [owner EXCEPT ![e] = a]
      /\ loop' = [loop EXCEPT ![a] = "acquire"]
      /\ UNCHANGED <<dead, life, shutting, inflight, attempt, completed>>
  BY DEF Fetch
<1>2. e \in Deliveries /\ e[1] = j /\ e[2] = deliveries[j] + 1
  BY FetchedIsNew
<1>3. deliveries' \in [Jobs -> 0 .. MaxDeliver]
  BY <1>1, Counted
<1>4. /\ deliveries'[j] = deliveries[j] + 1
      /\ \A i \in Jobs : deliveries[i] \in Nat /\ deliveries'[i] \in Nat
                         /\ deliveries[i] <= deliveries'[i]
  BY <1>1, Counted DEF TypeOK
<1>5. \A d \in Deliveries : Live(d)' =>
        owner'[d] \in Agents /\ d[2] <= deliveries'[d[1]] /\ stream'[d[1]] # "unknown"
  <2> TAKE d \in Deliveries
  <2>1. CASE d = e
    BY <1>1, <1>2, <1>4, <2>1 DEF TypeOK
  <2>2. CASE d # e
    BY <1>1, <1>2, <1>3, <1>4, <2>2 DEF TypeOK
  <2>3. QED
    BY <2>1, <2>2
<1> HIDE DEF e
<1>6. QED
  BY <1>1, <1>2, <1>3, <1>5 DEF TypeOK, Messages

\* And a step of a handler.
LEMMA HandlerTypes ==
  ASSUME TypeOK, NEW d \in Deliveries, Handle(d) PROVE TypeOK'
<1> USE Numbers DEF TypeOK, Messages, Goto
<1>1. CASE Begin(d)
  BY <1>1 DEF Begin
<1>2. CASE ForwardSucceeds(d)
  BY <1>2 DEF ForwardSucceeds
<1>3. CASE ForwardRejected(d)
  BY <1>3 DEF ForwardRejected
<1>4. CASE ForwardFails(d)
  BY <1>4 DEF ForwardFails
<1>5. CASE Bury(d)
  BY <1>5 DEF Bury
<1>6. CASE Ack(d)
  BY <1>6 DEF Ack, Acked, Return
<1>7. CASE Nak(d)
  <2>1. d[1] \in Jobs
    OBVIOUS
  <2>2. stream' = stream \/ stream' = [stream EXCEPT ![d[1]] = Returned(d[1])]
    BY <1>7 DEF Nak, Naked
  <2>3. /\ stream' \in [Jobs -> Messages]
        /\ \A j \in Jobs :
             /\ stream'[j] = "available" => deliveries[j] < MaxDeliver
             /\ stream'[j] = "unknown" => stream[j] = "unknown"
    BY <2>1, <2>2, ReturnedType
  <2>4. QED
    BY <1>7, <2>3 DEF Nak, Return
<1>8. QED
  BY <1>1, <1>2, <1>3, <1>4, <1>5, <1>6, <1>7 DEF Handle

\* Every step keeps every variable in its type.
LEMMA TypeStep == TypeOK /\ [Next]_vars => TypeOK'
<1> SUFFICES ASSUME TypeOK, [Next]_vars PROVE TypeOK'
  OBVIOUS
<1>1. CASE UNCHANGED vars
  BY <1>1 DEF vars, TypeOK
<1>2. QED
  BY <1>1, StreamTypes, AgentTypes, FetchTypes, HandlerTypes DEF Next

\* Type correctness of the delivery of jobs.
THEOREM TypeCorrect == Spec => []TypeOK
BY TypeInit, TypeStep, PTL DEF Spec

-----------------------------------------------------------------------------
(* No job is lost *)

\* A handler that is about to acknowledge has a 2xx answer or an envelope to
\* show for it, its own or an earlier one's.
AckEarned ==
  \A d \in Deliveries : hpc[d] = "ack" => completed[d[1]] > 0 \/ dead[d[1]] > 0

\* A step of a handler removes a job only when it is earned.
LEMMA HandlerKeepsJobs ==
  ASSUME TypeOK, NoLoss, AckEarned, NEW d \in Deliveries, Handle(d)
  PROVE  NoLoss' /\ AckEarned'
<1> USE DEF TypeOK, NoLoss, AckEarned, Goto
<1>1. CASE Begin(d)
  BY <1>1 DEF Begin
<1>2. CASE ForwardSucceeds(d)
  BY <1>2 DEF ForwardSucceeds
<1>3. CASE ForwardRejected(d)
  BY <1>3 DEF ForwardRejected
<1>4. CASE ForwardFails(d)
  BY <1>4 DEF ForwardFails
<1>5. CASE Bury(d)
  BY <1>5 DEF Bury
<1>6. CASE Ack(d)
  BY <1>6 DEF Ack, Acked, Return
<1>7. CASE Nak(d)
  <2>1. \A j \in Jobs : stream'[j] = "removed" => stream[j] = "removed"
    BY <1>7 DEF Nak, Naked, Returned
  <2>2. QED
    BY <1>7, <2>1 DEF Nak, Return
<1>8. QED
  BY <1>1, <1>2, <1>3, <1>4, <1>5, <1>6, <1>7 DEF Handle

\* So does every step: nothing but an acknowledgement removes a job.
LEMMA StepKeepsJobs ==
  TypeOK /\ NoLoss /\ AckEarned /\ [Next]_vars => NoLoss' /\ AckEarned'
<1> SUFFICES ASSUME TypeOK, NoLoss, AckEarned, [Next]_vars PROVE NoLoss' /\ AckEarned'
  OBVIOUS
<1> USE DEF TypeOK, NoLoss, AckEarned
<1>1. ASSUME NEW j \in Jobs, Submit(j) \/ AckWaitExpires(j) \/ DeliveryLost(j)
      PROVE  NoLoss' /\ AckEarned'
  BY <1>1 DEF Submit, AckWaitExpires, DeliveryLost, Returned
<1>2. ASSUME NEW a \in Agents, Run(a) \/ Loop(a) \/ Stop(a) \/ Crash(a)
      PROVE  NoLoss' /\ AckEarned'
  BY <1>2 DEF Run, Start, Drain, Exit, ExitOnError, Gone, Loop, Acquire, StopLoop,
              FetchNothing, Stop, Crash
<1>3. ASSUME NEW a \in Agents, NEW j \in Jobs, Fetch(a, j)
      PROVE  NoLoss' /\ AckEarned'
  BY <1>3, FetchedIsNew DEF Fetch
<1>4. ASSUME NEW d \in Deliveries, Handle(d) PROVE NoLoss' /\ AckEarned'
  BY <1>4, HandlerKeepsJobs
<1>5. CASE UNCHANGED vars
  BY <1>5 DEF vars
<1>6. QED
  BY <1>1, <1>2, <1>3, <1>4, <1>5 DEF Next

\* An accepted job never disappears, whatever fails: it leaves the stream only
\* after the endpoint answered 2xx, or with an envelope in the dead-letter queue.
THEOREM JobsAreNotLost == Spec => []NoLoss
<1>1. Init => NoLoss /\ AckEarned
  BY DEF Init, NoLoss, AckEarned
<1>2. QED
  BY <1>1, StepKeepsJobs, TypeCorrect, PTL DEF Spec

-----------------------------------------------------------------------------
(* Ownership *)

\* What SoleHandler says of a single handler; a second one would work on the
\* same, the latest, delivery.
Owned ==
  \A d \in Deliveries : Live(d) => d[2] = deliveries[d[1]] /\ stream[d[1]] = "pending"

\* Without lapses of AckWait no step gives a job a second handler.
LEMMA StepKeepsOwnership ==
  "lapse" \notin Faults /\ TypeOK /\ Owned /\ [Next]_vars => Owned'
<1> SUFFICES ASSUME "lapse" \notin Faults, TypeOK, Owned, [Next]_vars PROVE Owned'
  OBVIOUS
<1> USE DEF TypeOK, Owned
<1>1. ASSUME NEW j \in Jobs, Submit(j) \/ AckWaitExpires(j) \/ DeliveryLost(j)
      PROVE  Owned'
  <2>1. \A d \in Deliveries : Live(d) => d[1] # j
    <3>1. CASE AckWaitExpires(j)
      <4>1. hpc[<<j, deliveries[j]>>] = "none"
        BY <3>1 DEF AckWaitExpires
      <4>2. ASSUME NEW d \in Deliveries, Live(d), d[1] = j PROVE FALSE
        <5>1. d = <<j, deliveries[j]>>
          BY <4>2
        <5>2. QED
          BY <4>1, <4>2, <5>1
      <4>3. QED
        BY <4>2
    <3>2. CASE Submit(j) \/ DeliveryLost(j)
      BY <3>2 DEF Submit, DeliveryLost
    <3>3. QED
      BY <1>1, <3>1, <3>2
  <2>2. /\ UNCHANGED hpc
        /\ \A i \in Jobs \ {j} : stream'[i] = stream[i] /\ deliveries'[i] = deliveries[i]
    BY <1>1 DEF Submit, AckWaitExpires, DeliveryLost
  <2>3. QED
    BY <2>1, <2>2
<1>2. ASSUME NEW a \in Agents, Run(a) \/ Loop(a) \/ Stop(a) \/ Crash(a) PROVE Owned'
  BY <1>2 DEF Run, Start, Drain, Exit, ExitOnError, Gone, Loop, Acquire, StopLoop,
              FetchNothing, Stop, Crash
<1>3. ASSUME NEW a \in Agents, NEW j \in Jobs, Fetch(a, j) PROVE Owned'
  <2> DEFINE e == <<j, deliveries[j] + 1>>
  <2>1. /\ e \in Deliveries /\ e[1] = j /\ e[2] = deliveries[j] + 1
        /\ stream[j] = "available"
        /\ stream' = [stream EXCEPT ![j] = "pending"]
        /\ deliveries' = [deliveries EXCEPT ![j] = @ + 1]
        /\ hpc' = [hpc EXCEPT ![e] = "start"]
    BY <1>3, FetchedIsNew DEF Fetch
  <2> HIDE DEF e
  <2>2. \A d \in Deliveries : Live(d)' => d = e \/ (Live(d) /\ d[1] # j)
    BY <2>1
  <2>3. QED
    BY <2>1, <2>2
<1>4. ASSUME NEW d \in Deliveries, Handle(d) PROVE Owned'
  <2>1. CASE Ack(d) \/ Nak(d)
    <3>1. /\ hpc' = [hpc EXCEPT ![d] = "none"]
          /\ UNCHANGED deliveries
          /\ \A i \in Jobs \ {d[1]} : stream'[i] = stream[i]
      BY <2>1 DEF Ack, Nak, Acked, Naked, Return
    <3>2. \A e \in Deliveries : Live(e)' => Live(e) /\ e # d
      BY <3>1
    <3>3. \A e \in Deliveries : Live(e) /\ e # d => e[1] # d[1]
      <4>1. Live(d)
        BY <2>1 DEF Ack, Nak
      <4>2. \A e \in Deliveries : e = <<e[1], e[2]>>
        OBVIOUS
      <4>3. QED
        BY <4>1, <4>2
    <3>4. QED
      BY <3>1, <3>2, <3>3
  <2>2. CASE ~(Ack(d) \/ Nak(d))
    <3>1. /\ UNCHANGED <<stream, deliveries>>
          /\ \A e \in Deliveries : Live(e)' => Live(e)
      BY <1>4, <2>2 DEF Handle, Begin, ForwardSucceeds, ForwardRejected, ForwardFails,
                        Bury, Goto
    <3>2. QED
      BY <3>1
  <2>3. QED
    BY <2>1, <2>2
<1>5. CASE UNCHANGED vars
  BY <1>5 DEF vars
<1>6. QED
  BY <1>1, <1>2, <1>3, <1>4, <1>5 DEF Next

\* As long as AckWait never passes during the work of a live handler, a job has
\* one handler, and that handler holds the job's last delivery.
THEOREM OneHandlerPerJob == "lapse" \notin Faults /\ Spec => []SoleHandler
<1> SUFFICES ASSUME "lapse" \notin Faults PROVE Spec => []SoleHandler
  OBVIOUS
<1>1. Init => Owned
  BY DEF Init, Owned
<1>2. TypeOK /\ Owned => SoleHandler
  <2> SUFFICES ASSUME Owned PROVE SoleHandler
    OBVIOUS
  <2>1. \A d \in Deliveries : d = <<d[1], d[2]>>
    OBVIOUS
  <2>2. QED
    BY <2>1 DEF Owned, SoleHandler
<1>3. TypeOK /\ Owned /\ [Next]_vars => Owned'
  BY StepKeepsOwnership
<1>4. QED
  BY <1>1, <1>2, <1>3, TypeCorrect, PTL DEF Spec

-----------------------------------------------------------------------------
(* One outcome *)

\* The faults under which nothing happens twice: agents stop, the dead-letter
\* queue refuses, a pulled message does not arrive.
MildFaults == {"stop", "dlqFails", "deliveryLost"}

\* A job has an outcome only once: from then on it is removed, or its handler
\* is about to acknowledge it.
Single ==
  /\ \A j \in Jobs :
       \/ completed[j] + dead[j] = 0
       \/ /\ completed[j] + dead[j] = 1
          /\ stream[j] = "removed" \/ \E d \in Deliveries : d[1] = j /\ hpc[d] = "ack"
  /\ \A a \in Agents : loop[a] # "failed"

\* A job that a handler works on, and has not brought to an end yet, or that is
\* still in the stream without a handler, has no outcome.
LEMMA NoOutcomeYet ==
  ASSUME TypeOK, Owned, Single
  PROVE  /\ \A d \in Deliveries : Live(d) /\ hpc[d] # "ack" => completed[d[1]] + dead[d[1]] = 0
         /\ \A j \in Jobs : stream[j] \in {"unknown", "available"} => completed[j] + dead[j] = 0
         /\ \A j \in Jobs :
              stream[j] = "pending" /\ ~Live(<<j, deliveries[j]>>) => completed[j] + dead[j] = 0
<1> USE DEF Owned, Single
<1>1. \A d \in Deliveries : d = <<d[1], d[2]>> /\ d[1] \in Jobs
  OBVIOUS
<1>2. \A d, e \in Deliveries : Live(d) /\ Live(e) /\ d[1] = e[1] => d = e
  BY <1>1
<1>3. \A d \in Deliveries : hpc[d] = "ack" => Live(d)
  OBVIOUS
<1>4. \A j \in Jobs, d \in Deliveries : Live(d) /\ d[1] = j => d = <<j, deliveries[j]>>
  BY <1>1
<1>5. QED
  BY <1>1, <1>2, <1>3, <1>4

\* A step of a handler brings its job to an outcome only as its last deed.
LEMMA HandlerKeepsSingle ==
  ASSUME TypeOK, Owned, Single, Faults \subseteq MildFaults,
         NEW d \in Deliveries, Handle(d)
  PROVE  Single'
<1>1. /\ d[1] \in Jobs /\ hpc \in [Deliveries -> {"none", "start", "forward", "bury", "ack", "nak"}]
      /\ completed \in [Jobs -> Nat] /\ dead \in [Jobs -> Nat]
      /\ stream \in [Jobs -> Messages] /\ inflight \in [Agents -> Int]
  BY DEF TypeOK
<1>2. UNCHANGED loop
  BY DEF Handle, Begin, ForwardSucceeds, ForwardRejected, ForwardFails, Bury, Ack, Nak
<1>3. \A j \in Jobs \ {d[1]} :
        /\ completed'[j] = completed[j] /\ dead'[j] = dead[j] /\ stream'[j] = stream[j]
        /\ \A e \in Deliveries : e[1] = j => hpc'[e] = hpc[e]
  BY <1>1 DEF Handle, Begin, ForwardSucceeds, ForwardRejected, ForwardFails, Bury, Ack, Nak,
              Acked, Naked, Return, Goto
<1>4. \/ completed'[d[1]] + dead'[d[1]] = 0
      \/ /\ completed'[d[1]] + dead'[d[1]] = 1
         /\ stream'[d[1]] = "removed" \/ hpc'[d] = "ack"
  <2>1. Live(d)
    BY DEF Handle, Begin, ForwardSucceeds, ForwardRejected, ForwardFails, Bury, Ack, Nak
  <2>2. completed[d[1]] \in Nat /\ dead[d[1]] \in Nat
    BY <1>1
  <2>3. CASE hpc[d] # "ack"
    <3>1. completed[d[1]] + dead[d[1]] = 0
      BY <2>1, <2>3, NoOutcomeYet
    <3>2. completed[d[1]] = 0 /\ dead[d[1]] = 0
      BY <2>2, <3>1
    <3>3. CASE ForwardSucceeds(d)
      BY <1>1, <3>2, <3>3 DEF ForwardSucceeds, Goto
    <3>4. CASE Bury(d)
      BY <1>1, <3>2, <3>4 DEF Bury, Goto, MildFaults
    <3>5. CASE UNCHANGED <<completed, dead>>
      BY <3>1, <3>5
    <3>6. QED
      BY <2>3, <3>3, <3>4, <3>5
         DEF Handle, Begin, ForwardRejected, ForwardFails, Ack, Nak
  <2>4. CASE hpc[d] = "ack"
    <3>1. UNCHANGED <<completed, dead>> /\ stream'[d[1]] = "removed"
      BY <1>1, <2>4 DEF Handle, Begin, ForwardSucceeds, ForwardRejected, ForwardFails,
                        Bury, Nak, Ack, Acked, MildFaults
    <3>2. QED
      BY <1>1, <3>1 DEF Single
  <2>5. QED
    BY <2>3, <2>4
<1>5. QED
  BY <1>1, <1>2, <1>3, <1>4 DEF Single

\* Every step keeps it: no agent ends with a job in hand, and a job is given to
\* a handler only before its outcome.
LEMMA StepKeepsSingle ==
  ASSUME Faults \subseteq MildFaults
  PROVE  TypeOK /\ Owned /\ Single /\ [Next]_vars => Single'
<1> SUFFICES ASSUME TypeOK, Owned, Single, [Next]_vars PROVE Single'
  OBVIOUS
<1>1. ASSUME NEW j \in Jobs, Submit(j) \/ AckWaitExpires(j) \/ DeliveryLost(j)
      PROVE  Single'
  <2>1. completed[j] + dead[j] = 0
    <3>1. stream[j] \in {"unknown", "available"}
          \/ (stream[j] = "pending" /\ ~Live(<<j, deliveries[j]>>))
      BY <1>1 DEF Submit, AckWaitExpires, DeliveryLost, MildFaults
    <3>2. QED
      BY <3>1, NoOutcomeYet
  <2>2. /\ UNCHANGED <<completed, dead, hpc, loop>>
        /\ \A i \in Jobs \ {j} : stream'[i] = stream[i]
    BY <1>1 DEF Submit, AckWaitExpires, DeliveryLost, TypeOK
  <2>3. QED
    BY <2>1, <2>2 DEF Single
<1>2. ASSUME NEW a \in Agents, Run(a) \/ Loop(a) \/ Stop(a) \/ Crash(a) PROVE Single'
  <2>1. UNCHANGED <<completed, dead, stream>>
    BY <1>2 DEF Run, Start, Drain, Exit, ExitOnError, Gone, Loop, Acquire, StopLoop,
                FetchNothing, Stop, Crash
  <2>2. \A b \in Agents : loop'[b] # "failed"
    BY <1>2 DEF Run, Start, Drain, Exit, ExitOnError, Gone, Loop, Acquire, StopLoop,
                FetchNothing, Stop, Crash, Single, MildFaults, TypeOK
  <2>3. \A d \in Deliveries : hpc'[d] = hpc[d]
    <3>1. ~ExitOnError(a) /\ ~Crash(a)
      BY DEF ExitOnError, Crash, Single, MildFaults
    <3>2. CASE Exit(a)
      <4>1. Working(a) = {}
        BY <3>2 DEF Exit, MildFaults
      <4>2. QED
        BY <3>2, <4>1 DEF Exit, Gone
    <3>3. QED
      BY <1>2, <3>1, <3>2 DEF Run, Start, Drain, Loop, Acquire, StopLoop, FetchNothing, Stop
  <2>4. QED
    BY <2>1, <2>2, <2>3 DEF Single
<1>3. ASSUME NEW a \in Agents, NEW j \in Jobs, Fetch(a, j) PROVE Single'
  <2> DEFINE e == <<j, deliveries[j] + 1>>
  <2>1. /\ e \in Deliveries /\ ~Live(e) /\ e[1] = j
        /\ stream[j] = "available" /\ stream' = [stream EXCEPT ![j] = "pending"]
        /\ hpc' = [hpc EXCEPT ![e] = "start"]
        /\ loop' = [loop EXCEPT ![a] = "acquire"]
        /\ UNCHANGED <<completed, dead>>
    BY <1>3, FetchedIsNew DEF Fetch
  <2>2. completed[j] + dead[j] = 0
    BY <2>1, NoOutcomeYet
  <2> HIDE DEF e
  <2>3. \A i \in Jobs \ {j} : stream'[i] = stream[i]
    BY <2>1 DEF TypeOK
  <2>4. \A d \in Deliveries : hpc[d] = "ack" => hpc'[d] = "ack"
    BY <2>1 DEF TypeOK
  <2>5. \A b \in Agents : loop'[b] # "failed"
    BY <2>1 DEF TypeOK, Single
  <2>6. QED
    BY <2>1, <2>2, <2>3, <2>4, <2>5 DEF Single
<1>4. ASSUME NEW d \in Deliveries, Handle(d) PROVE Single'
  BY <1>4, HandlerKeepsSingle
<1>5. CASE UNCHANGED vars
  BY <1>5 DEF vars, Single
<1>6. QED
  BY <1>1, <1>2, <1>3, <1>4, <1>5 DEF Next

\* Agents that are stopped, a dead-letter queue that refuses and deliveries that
\* do not arrive never give a job two outcomes.
THEOREM OutcomeIsUnique ==
  ASSUME Faults \subseteq MildFaults PROVE Spec => []OneOutcome
<1>1. Init => Owned /\ Single
  BY DEF Init, Owned, Single
<1>2. TypeOK /\ Owned /\ [Next]_vars => Owned'
  BY StepKeepsOwnership DEF MildFaults
<1>3. TypeOK /\ Owned /\ Single /\ [Next]_vars => Single'
  BY StepKeepsSingle
<1>4. Single => OneOutcome
  BY DEF Single, OneOutcome
<1>5. QED
  BY <1>1, <1>2, <1>3, <1>4, TypeCorrect, PTL DEF Spec

-----------------------------------------------------------------------------
(* The promise to clients *)

\* What a step may do to job j, in the words of JobPromise.
JobStep(j) ==
  \/ Promised(j)' = Promised(j) /\ Reported(j)' = Reported(j)
  \/ Promised(j) = "unknown" /\ Promised(j)' = "queued" /\ Reported(j)' = Reported(j)
  \/ /\ Promised(j) # "unknown" /\ Promised(j)' = Promised(j)
     /\ \E o \in {"completed", "buried"} : Reported(j)' = Reported(j) \cup {o}
  \/ /\ Promised(j) \in {"queued", "stranded"} /\ Reported(j) # {}
     /\ Promised(j)' = "settled" /\ Reported(j)' = Reported(j)
  \/ Promised(j) = "queued" /\ Promised(j)' = "stranded" /\ Reported(j)' = Reported(j)

\* The other jobs are left alone.
Others(j) ==
  \A i \in Jobs \ {j} : Promised(i)' = Promised(i) /\ Reported(i)' = Reported(i)

\* A step that does so to one job is a step of the promise.
LEMMA OneJobPromised ==
  ASSUME NEW i \in Jobs, JobStep(i), Others(i)
  PROVE  [Promise!Next]_<<[j \in Jobs |-> Promised(j)], [j \in Jobs |-> Reported(j)]>>
<1> DEFINE st  == [j \in Jobs |-> Promised(j)]
           rep == [j \in Jobs |-> Reported(j)]
<1>1. /\ st[i] = Promised(i) /\ rep[i] = Reported(i)
      /\ st' = [st EXCEPT ![i] = Promised(i)'] /\ rep' = [rep EXCEPT ![i] = Reported(i)']
  BY DEF Others
<1>2. /\ Promised(i)' = Promised(i) => st' = st
      /\ Reported(i)' = Reported(i) => rep' = rep
  BY DEF Others
<1>3. CASE Promised(i)' = Promised(i) /\ Reported(i)' = Reported(i)
  BY <1>2, <1>3
<1>4. CASE Promised(i) = "unknown" /\ Promised(i)' = "queued" /\ Reported(i)' = Reported(i)
  <2>1. Promise!Accept(i)
    BY <1>1, <1>2, <1>4 DEF Promise!Accept
  <2>2. QED
    BY <2>1 DEF Promise!Next
<1>5. ASSUME Promised(i) # "unknown", Promised(i)' = Promised(i),
             NEW o \in {"completed", "buried"}, Reported(i)' = Reported(i) \cup {o}
      PROVE  Promise!Report(i)
  BY <1>1, <1>2, <1>5 DEF Promise!Report, Promise!Outcomes
<1>6. CASE /\ Promised(i) \in {"queued", "stranded"} /\ Reported(i) # {}
           /\ Promised(i)' = "settled" /\ Reported(i)' = Reported(i)
  <2>1. Promise!Settle(i)
    BY <1>1, <1>2, <1>6 DEF Promise!Settle
  <2>2. QED
    BY <2>1 DEF Promise!Next
<1>7. CASE Promised(i) = "queued" /\ Promised(i)' = "stranded" /\ Reported(i)' = Reported(i)
  <2>1. Promise!Strand(i)
    BY <1>1, <1>2, <1>7 DEF Promise!Strand
  <2>2. QED
    BY <2>1 DEF Promise!Next
<1>8. QED
  BY <1>3, <1>4, <1>5, <1>6, <1>7 DEF JobStep, Promise!Next

\* A step of a handler does so to its job: it reports before it settles.
LEMMA HandlerPromised ==
  ASSUME TypeOK, AckEarned, NEW d \in Deliveries, Handle(d), NEW j \in Jobs, j = d[1]
  PROVE  JobStep(j) /\ Others(j)
<1>1. /\ Live(d) /\ stream[j] # "unknown"
  BY DEF TypeOK, Handle, Begin, ForwardSucceeds, ForwardRejected, ForwardFails, Bury,
         Ack, Nak
<1>2. Others(j)
  <2>1. \A i \in Jobs \ {j} : /\ stream'[i] = stream[i] /\ completed'[i] = completed[i]
                             /\ dead'[i] = dead[i]
    BY DEF TypeOK, Handle, Begin, ForwardSucceeds, ForwardRejected, ForwardFails, Bury,
           Ack, Nak, Acked, Naked
  <2>2. QED
    BY <2>1 DEF Others, Promised, Reported
<1> SUFFICES JobStep(j)
  BY <1>2
<1>3. CASE ForwardSucceeds(d) \/ Bury(d)
  <2>1. CASE UNCHANGED <<completed, dead>>
    BY <1>3, <2>1 DEF ForwardSucceeds, Bury, JobStep, Promised, Reported
  <2>2. CASE completed' = [completed EXCEPT ![j] = @ + 1] /\ UNCHANGED <<dead, stream>>
    <3>1. Promised(j)' = Promised(j) /\ Promised(j) # "unknown"
      BY <1>1, <2>2 DEF Promised, TypeOK, Messages
    <3>2. Reported(j)' = Reported(j) \cup {"completed"}
      BY <1>1, <2>2 DEF Reported, TypeOK
    <3>3. QED
      BY <3>1, <3>2 DEF JobStep
  <2>3. CASE dead' = [dead EXCEPT ![j] = @ + 1] /\ UNCHANGED <<completed, stream>>
    <3>1. Promised(j)' = Promised(j) /\ Promised(j) # "unknown"
      BY <1>1, <2>3 DEF Promised, TypeOK, Messages
    <3>2. Reported(j)' = Reported(j) \cup {"buried"}
      BY <1>1, <2>3 DEF Reported, TypeOK
    <3>3. QED
      BY <3>1, <3>2 DEF JobStep
  <2>4. QED
    BY <1>3, <2>1, <2>2, <2>3 DEF ForwardSucceeds, Bury
<1>4. CASE Ack(d)
  <2>1. Reported(j) # {} /\ Reported(j)' = Reported(j)
    BY <1>1, <1>4 DEF Ack, Return, AckEarned, Reported
  <2>2. CASE stream' = stream
    BY <2>1, <2>2 DEF JobStep, Promised
  <2>3. CASE stream' = [stream EXCEPT ![j] = "removed"]
    <3>1. Promised(j) \in {"queued", "stranded", "settled"} /\ Promised(j)' = "settled"
      BY <1>1, <2>3 DEF Promised, TypeOK, Messages
    <3>2. QED
      BY <2>1, <3>1 DEF JobStep
  <2>4. QED
    BY <1>4, <2>2, <2>3 DEF Ack, Acked
<1>5. CASE Nak(d)
  <2>1. Reported(j)' = Reported(j)
    BY <1>5 DEF Nak, Return, Reported
  <2>2. \/ stream' = stream
        \/ stream[j] = "pending" /\ stream' = [stream EXCEPT ![j] = Returned(j)]
    BY <1>5 DEF Nak, Naked
  <2>3. \/ Promised(j)' = Promised(j)
        \/ Promised(j) = "queued" /\ Promised(j)' = "stranded"
    BY <1>1, <2>2, ReturnedType DEF Promised, TypeOK
  <2>4. QED
    BY <2>1, <2>3 DEF JobStep
<1>6. CASE Begin(d) \/ ForwardRejected(d) \/ ForwardFails(d)
  BY <1>6 DEF Begin, ForwardRejected, ForwardFails, JobStep, Promised, Reported
<1>7. QED
  BY <1>3, <1>4, <1>5, <1>6 DEF Handle

\* So does a step of the stream, or a delivery: neither reports anything.
LEMMA StreamPromised ==
  ASSUME TypeOK, NEW j \in Jobs,
         \/ Submit(j) \/ AckWaitExpires(j) \/ DeliveryLost(j)
         \/ \E a \in Agents : Fetch(a, j)
  PROVE  JobStep(j) /\ Others(j)
<1>1. /\ UNCHANGED <<completed, dead>>
      /\ \A i \in Jobs \ {j} : stream'[i] = stream[i]
      /\ \/ stream[j] = "unknown" /\ stream'[j] = "available"
         \/ stream[j] = "pending" /\ stream'[j] \in {"available", "stranded"}
         \/ stream[j] = "available" /\ stream'[j] = "pending"
  BY ReturnedType DEF TypeOK, Submit, AckWaitExpires, DeliveryLost, Fetch
<1>2. Others(j) /\ Reported(j)' = Reported(j)
  BY <1>1 DEF Others, Promised, Reported
<1>3. \/ Promised(j)' = Promised(j)
      \/ Promised(j) = "unknown" /\ Promised(j)' = "queued"
      \/ Promised(j) = "queued" /\ Promised(j)' = "stranded"
  BY <1>1 DEF Promised
<1>4. QED
  BY <1>2, <1>3 DEF JobStep

\* The agents and the stream together keep the promise made to clients: the
\* delivery of jobs implements JobPromise.
THEOREM ImplementsPromise == Spec => KeepsPromise
<1> DEFINE st  == [j \in Jobs |-> Promised(j)]
           rep == [j \in Jobs |-> Reported(j)]
<1>1. Init => Promise!Init
  BY DEF Init, Promise!Init, Promised, Reported
<1>2. ASSUME TypeOK, AckEarned, [Next]_vars PROVE [Promise!Next]_<<st, rep>>
  <2>1. ASSUME NEW j \in Jobs, Submit(j) \/ AckWaitExpires(j) \/ DeliveryLost(j)
        PROVE  [Promise!Next]_<<st, rep>>
    BY <1>2, <2>1, StreamPromised, OneJobPromised
  <2>2. ASSUME NEW a \in Agents, NEW j \in Jobs, Fetch(a, j)
        PROVE  [Promise!Next]_<<st, rep>>
    BY <1>2, <2>2, StreamPromised, OneJobPromised
  <2>3. ASSUME NEW d \in Deliveries, Handle(d) PROVE [Promise!Next]_<<st, rep>>
    <3>1. PICK j \in Jobs : j = d[1]
      OBVIOUS
    <3>2. QED
      BY <1>2, <2>3, <3>1, HandlerPromised, OneJobPromised
  <2>4. CASE UNCHANGED <<stream, completed, dead>>
    BY <2>4 DEF Promised, Reported
  <2>5. ASSUME NEW a \in Agents, Run(a) \/ Loop(a) \/ Stop(a) \/ Crash(a)
        PROVE  UNCHANGED <<stream, completed, dead>>
    BY <2>5 DEF Run, Start, Drain, Exit, ExitOnError, Gone, Loop, Acquire, StopLoop,
                FetchNothing, Stop, Crash
  <2>6. QED
    BY <1>2, <2>1, <2>2, <2>3, <2>4, <2>5 DEF Next, vars
<1>3. Init => NoLoss /\ AckEarned
  BY DEF Init, NoLoss, AckEarned
<1>4. TypeOK /\ AckEarned /\ [Next]_vars =>
        [Promise!Next]_<<[j \in Jobs |-> Promised(j)], [j \in Jobs |-> Reported(j)]>>
  BY <1>2
<1>5. QED
  BY <1>1, <1>3, <1>4, StepKeepsJobs, TypeCorrect, PTL DEF Spec, KeepsPromise, Promise!Spec

-----------------------------------------------------------------------------
(* Tokens *)

\* The handlers of an agent can be counted.
LEMMA WorkIsFinite ==
  ASSUME NEW a \in Agents
  PROVE  IsFiniteSet(Working(a)) /\ Cardinality(Working(a)) \in Nat
<1>1. IsFiniteSet(1 .. MaxDeliver)
  BY Numbers, FS_Interval
<1>2. IsFiniteSet(Deliveries)
  BY <1>1, JobDeliveryAssumption, FS_Product
<1>3. Working(a) \in SUBSET Deliveries
  BY DEF Working
<1>4. IsFiniteSet(Working(a))
  BY <1>2, <1>3, FS_Subset
<1>5. QED
  BY <1>4, FS_CardinalityType

\* An agent that is down has no loop, which could still hold a token.
DownIsStopped == \A a \in Agents : life[a] = "down" => loop[a] = "stopped"

Tokens == DownIsStopped /\ TokensAccounted /\ \A a \in Agents : inflight[a] <= MaxInFlight

\* A token is taken by the loop, given back by it, or the agent is gone.
LEMMA AgentKeepsTokens ==
  ASSUME TypeOK, Tokens, NEW a \in Agents, Run(a) \/ Loop(a) \/ Stop(a) \/ Crash(a)
  PROVE  Tokens'
<1> USE DEF TypeOK, Tokens, DownIsStopped, TokensAccounted
<1>1. \A b \in Agents : Cardinality(Working(b)) \in Nat
  BY WorkIsFinite
<1>2. CASE Gone(a)
  <2>1. Working(a)' = {}
    BY <1>2 DEF Gone, Working
  <2>2. Cardinality(Working(a)') = 0
    BY <2>1, FS_EmptySet
  <2>3. \A b \in Agents \ {a} : Working(b)' = Working(b)
    BY <1>2 DEF Gone, Working
  <2>4. QED
    BY <1>2, <2>2, <2>3, Numbers DEF Gone
<1>3. CASE ~Gone(a)
  <2>1. \A b \in Agents : Working(b)' = Working(b)
    BY <1>3 DEF Working, Run, Start, Drain, Exit, ExitOnError, Loop, Acquire, StopLoop,
                FetchNothing, Stop, Crash
  <2>2. CASE Acquire(a)
    BY <1>1, <2>1, <2>2, Numbers DEF Acquire
  <2>3. CASE FetchNothing(a)
    BY <1>1, <2>1, <2>3, Numbers DEF FetchNothing
  <2>4. CASE Start(a) \/ StopLoop(a) \/ Drain(a) \/ Stop(a)
    BY <1>1, <2>1, <2>4 DEF Start, StopLoop, Drain, Stop
  <2>5. QED
    BY <1>3, <2>2, <2>3, <2>4 DEF Run, Exit, ExitOnError, Loop, Crash
<1>4. QED
  BY <1>2, <1>3

\* The token of the loop becomes the token of the handler it starts.
LEMMA FetchKeepsTokens ==
  ASSUME TypeOK, Tokens, NEW a \in Agents, NEW j \in Jobs, Fetch(a, j) PROVE Tokens'
<1> USE DEF TypeOK, Tokens, DownIsStopped, TokensAccounted
<1> DEFINE e == <<j, deliveries[j] + 1>>
<1>1. /\ e \in Deliveries /\ hpc[e] = "none" /\ loop[a] = "fetch"
      /\ hpc' = [hpc EXCEPT ![e] = "start"] /\ owner' = [owner EXCEPT ![e] = a]
      /\ loop' = [loop EXCEPT ![a] = "acquire"] /\ UNCHANGED <<inflight, life>>
  BY FetchedIsNew DEF Fetch
<1> HIDE DEF e
<1>2. Working(a)' = Working(a) \cup {e} /\ e \notin Working(a)
  BY <1>1 DEF Working
<1>3. Cardinality(Working(a)') = Cardinality(Working(a)) + 1
  BY <1>2, WorkIsFinite, FS_AddElement
<1>4. \A b \in Agents \ {a} : Working(b)' = Working(b)
  BY <1>1 DEF Working
<1>5. QED
  BY <1>1, <1>3, <1>4, WorkIsFinite

\* A handler gives its token back when it returns, and only then.
LEMMA HandlerKeepsTokens ==
  ASSUME TypeOK, Tokens, NEW d \in Deliveries, Handle(d) PROVE Tokens'
<1> USE DEF TypeOK, Tokens, DownIsStopped, TokensAccounted
<1>1. CASE Ack(d) \/ Nak(d)
  <2>1. PICK a \in Agents : a = owner[d] /\ d \in Working(a)
    BY <1>1 DEF Ack, Nak, Working
  <2>2. /\ hpc' = [hpc EXCEPT ![d] = "none"] /\ owner' = [owner EXCEPT ![d] = NoAgent]
        /\ inflight' = [inflight EXCEPT ![a] = @ - 1] /\ UNCHANGED <<life, loop>>
    BY <1>1, <2>1 DEF Ack, Nak, Return
  <2>3. Working(a)' = Working(a) \ {d}
    BY <2>1, <2>2 DEF Working
  <2>4. Cardinality(Working(a)') = Cardinality(Working(a)) - 1
    BY <2>1, <2>3, WorkIsFinite, FS_RemoveElement
  <2>5. \A b \in Agents \ {a} : Working(b)' = Working(b)
    BY <2>1, <2>2 DEF Working
  <2>6. QED
    BY <2>2, <2>4, <2>5, WorkIsFinite, Numbers
<1>2. CASE ~(Ack(d) \/ Nak(d))
  <2>1. /\ UNCHANGED <<inflight, life, loop, owner>>
        /\ \A e \in Deliveries : Live(e)' <=> Live(e)
    BY <1>2 DEF Handle, Begin, ForwardSucceeds, ForwardRejected, ForwardFails, Bury, Goto
  <2>2. \A b \in Agents : Working(b)' = Working(b)
    BY <2>1 DEF Working
  <2>3. QED
    BY <2>1, <2>2
<1>3. QED
  BY <1>1, <1>2

\* Every step keeps account of the tokens.
LEMMA StepKeepsTokens == TypeOK /\ Tokens /\ [Next]_vars => Tokens'
<1> SUFFICES ASSUME TypeOK, Tokens, [Next]_vars PROVE Tokens'
  OBVIOUS
<1>1. ASSUME NEW j \in Jobs, Submit(j) \/ AckWaitExpires(j) \/ DeliveryLost(j)
      PROVE  UNCHANGED <<agents, handlers>>
  BY <1>1 DEF Submit, AckWaitExpires, DeliveryLost
<1>2. CASE UNCHANGED <<agents, handlers>>
  BY <1>2 DEF Tokens, DownIsStopped, TokensAccounted, Working
<1>3. CASE UNCHANGED vars
  BY <1>2, <1>3 DEF vars
<1>4. QED
  BY <1>1, <1>2, <1>3, AgentKeepsTokens, FetchKeepsTokens, HandlerKeepsTokens DEF Next

\* Tokens are there at the start, and stay accounted for.
LEMMA TokensKept == Spec => []Tokens
<1>1. Init => Tokens
  <2> SUFFICES ASSUME Init PROVE Tokens
    OBVIOUS
  <2>1. \A a \in Agents : Working(a) = {}
    BY DEF Init, Working
  <2>2. \A a \in Agents : Cardinality(Working(a)) = 0
    BY <2>1, FS_EmptySet
  <2>3. /\ \A a \in Agents : life[a] = "down" => loop[a] = "stopped"
        /\ \A a \in Agents : loop[a] = "stopped" /\ inflight[a] = 0
    BY DEF Init
  <2>4. QED
    BY <2>2, <2>3, Numbers DEF Tokens, DownIsStopped, TokensAccounted
<1>2. QED
  BY <1>1, StepKeepsTokens, TypeCorrect, PTL DEF Spec

\* The tokens of an agent are those of its handlers and its loop: none is lost
\* on any way out of consumeLoop or processMessage, none is given back twice.
THEOREM TokensAreAccounted == Spec => []TokensAccounted
BY TokensKept, PTL DEF Tokens

\* No agent ever works on more than MAX_INFLIGHT jobs.
THEOREM ConcurrencyIsBounded == Spec => []ConcurrencyBounded
<1>1. TypeOK /\ Tokens => ConcurrencyBounded
  BY WorkIsFinite, Numbers DEF TypeOK, Tokens, TokensAccounted, ConcurrencyBounded
<1>2. QED
  BY <1>1, TokensKept, TypeCorrect, PTL

=============================================================================
