---------------------------- MODULE GatewayProofs ----------------------------
(***************************************************************************)
(* What clients of the gateway may rely on, proved for every number of     *)
(* clients, requests, agents and deliveries and for every fault of either  *)
(* side: an accepted job is queued.                                        *)
(***************************************************************************)
EXTENDS Gateway, DeliveryProofs

USE DEF queue, agents, handlers, Deliveries, Live

-----------------------------------------------------------------------------
(* The gateway on top of the queue *)

\* What the gateway adds leaves the rest of the system its steps.
LEMMA GatewayImplements == GatewaySpec => Spec
<1>1. GatewayInit => Init
  BY DEF GatewayInit
<1>2. ASSUME [GatewayNext]_gwVars PROVE [Next]_vars
  <2>1. ASSUME NEW r \in Requests, Store(r) PROVE Next
    BY <2>1, GatewayAssumption DEF Store, Next
  <2>2. CASE Deliver
    BY <2>2 DEF Deliver, Next
  <2>3. CASE UNCHANGED vars
    BY <2>3
  <2>4. QED
    BY <1>2, <2>1, <2>2, <2>3 DEF GatewayNext, gwVars, Publish, Refuse, Accept,
       QueueUnavailable, Disconnect, Reconnect, GatewayCrash
<1>3. QED
  BY <1>1, <1>2, PTL DEF GatewaySpec, Spec

Places == {"none", "buffered", "sent", "stored"}

LinkTypes ==
  /\ answer \in [Requests -> Answers] /\ wire \in [Requests -> Places]
  /\ connected \in BOOLEAN

\* Answers and places of messages keep their types.
LEMMA LinkTyped == GatewaySpec => []LinkTypes
<1>1. GatewayInit => LinkTypes
  BY DEF GatewayInit, LinkTypes, Answers, Places
<1>2. LinkTypes /\ [GatewayNext]_gwVars => LinkTypes'
  BY DEF LinkTypes, Answers, Places, GatewayNext, gwVars, link, Publish, Refuse, Store,
     Accept, QueueUnavailable, Disconnect, Reconnect, GatewayCrash, Deliver, Answer
<1>3. QED
  BY <1>1, <1>2, PTL DEF GatewaySpec

-----------------------------------------------------------------------------
(* An accepted job is queued *)

\* A message the stream has stored stays known to it.
LEMMA StaysKnown ==
  ASSUME TypeOK, [Next]_vars, NEW j \in Jobs, stream[j] # "unknown"
  PROVE  stream'[j] # "unknown"
<1> USE DEF TypeOK, Messages
<1>1. ASSUME NEW i \in Jobs, Submit(i) \/ AckWaitExpires(i) \/ DeliveryLost(i)
      PROVE  stream'[j] # "unknown"
  BY <1>1 DEF Submit, AckWaitExpires, DeliveryLost, Returned
<1>2. ASSUME NEW a \in Agents, NEW i \in Jobs, Fetch(a, i) PROVE stream'[j] # "unknown"
  BY <1>2 DEF Fetch
<1>3. ASSUME NEW d \in Deliveries, Handle(d) PROVE stream'[j] # "unknown"
  <2>1. d[1] \in Jobs
    OBVIOUS
  <2>2. QED
    BY <1>3, <2>1 DEF Handle, Begin, ForwardSucceeds, ForwardRejected, ForwardFails,
       Bury, Ack, Nak, Acked, Naked, Returned
<1>4. CASE stream' = stream
  BY <1>4
<1>5. ASSUME NEW a \in Agents, Run(a) \/ Loop(a) \/ Stop(a) \/ Crash(a) PROVE stream' = stream
  BY <1>5 DEF Run, Start, Drain, Exit, ExitOnError, Gone, Loop, Acquire, StopLoop,
              FetchNothing, Stop, Crash
<1>6. QED
  BY <1>1, <1>2, <1>3, <1>4, <1>5 DEF Next, vars

\* What the gateway believes to be stored is, and what is known to the stream
\* was sent by somebody who waits for the answer, or has it.
Acknowledged ==
  \A r \in Requests :
    /\ wire[r] = "stored" \/ answer[r] = "202" => stream[r] # "unknown"
    /\ wire[r] # "none" => answer[r] \notin {"unsent", "400"}
    /\ stream[r] # "unknown" => answer[r] \notin {"unsent", "400"}

\* No step breaks it, of the gateway or of the queue.
LEMMA StepAcknowledged == TypeOK /\ LinkTypes /\ Acknowledged /\ [GatewayNext]_gwVars => Acknowledged'
<1> SUFFICES ASSUME TypeOK, LinkTypes, Acknowledged, [GatewayNext]_gwVars PROVE Acknowledged'
  OBVIOUS
<1> USE GatewayAssumption DEF LinkTypes, Acknowledged, Answer
<1>1. ASSUME NEW r \in Requests, Publish(r) PROVE Acknowledged'
  BY <1>1 DEF Publish, MaySend, vars
<1>2. ASSUME NEW r \in Requests, Refuse(r) PROVE Acknowledged'
  BY <1>2 DEF Refuse, MaySend, vars
<1>3. ASSUME NEW r \in Requests, Store(r) PROVE Acknowledged'
  BY <1>3 DEF Store, Submit, TypeOK
<1>4. ASSUME NEW r \in Requests, Accept(r) PROVE Acknowledged'
  BY <1>4 DEF Accept, vars
<1>5. ASSUME NEW r \in Requests, QueueUnavailable(r) PROVE Acknowledged'
  BY <1>5 DEF QueueUnavailable, vars
<1>6. CASE Disconnect \/ Reconnect \/ GatewayCrash
  BY <1>6 DEF Disconnect, Reconnect, GatewayCrash, vars
<1>7. CASE Deliver /\ UNCHANGED link
  <2>1. \A r \in Requests : stream'[r] # "unknown" <=> stream[r] # "unknown"
    <3>1. Next
      BY <1>7 DEF Deliver, Next
    <3>2. ASSUME NEW r \in Requests, stream[r] = "unknown" PROVE stream'[r] = "unknown"
      <4> USE DEF TypeOK
      <4>1. ASSUME NEW i \in Jobs, AckWaitExpires(i) \/ DeliveryLost(i)
            PROVE  stream'[r] = "unknown"
        BY <3>2, <4>1 DEF AckWaitExpires, DeliveryLost
      <4>2. ASSUME NEW a \in Agents, NEW i \in Jobs, Fetch(a, i) PROVE stream'[r] = "unknown"
        BY <3>2, <4>2 DEF Fetch
      <4>3. ASSUME NEW d \in Deliveries, Handle(d) PROVE stream'[r] = "unknown"
        <5>1. d[1] \in Jobs /\ Live(d)
          BY <4>3 DEF Handle, Begin, ForwardSucceeds, ForwardRejected, ForwardFails,
             Bury, Ack, Nak
        <5>2. d[1] # r
          BY <3>2, <5>1
        <5>3. QED
          BY <3>2, <4>3, <5>1, <5>2 DEF Handle, Begin, ForwardSucceeds, ForwardRejected,
             ForwardFails, Bury, Ack, Nak, Acked, Naked
      <4>4. ASSUME NEW a \in Agents, Run(a) \/ Loop(a) \/ Stop(a) \/ Crash(a)
            PROVE  stream' = stream
        BY <4>4 DEF Run, Start, Drain, Exit, ExitOnError, Gone, Loop, Acquire, StopLoop,
                    FetchNothing, Stop, Crash
      <4>5. QED
        BY <1>7, <3>2, <4>1, <4>2, <4>3, <4>4 DEF Deliver
    <3>3. QED
      BY <3>1, <3>2, StaysKnown
  <2>2. QED
    BY <1>7, <2>1 DEF link
<1>8. CASE UNCHANGED gwVars
  BY <1>8 DEF gwVars, vars, link
<1>9. QED
  BY <1>1, <1>2, <1>3, <1>4, <1>5, <1>6, <1>7, <1>8 DEF GatewayNext

\* It holds in every behaviour.
LEMMA AcknowledgedAlways == GatewaySpec => []Acknowledged
<1>1. GatewayInit => Acknowledged
  BY GatewayAssumption DEF GatewayInit, Init, Acknowledged
<1>2. QED
  BY <1>1, StepAcknowledged, LinkTyped, GatewayImplements, TypeCorrect, PTL DEF GatewaySpec

\* "return HTTP 202 Accepted": a job whose client was told so is in the queue,
\* whatever has failed since, or somebody has answered for it.
THEOREM AcceptedStaysQueued == GatewaySpec => []AcceptedIsQueued
<1>1. TypeOK /\ NoLoss /\ Acknowledged => AcceptedIsQueued
  <2> SUFFICES ASSUME TypeOK, NoLoss, Acknowledged, NEW r \in Requests, answer[r] = "202",
                      stream[r] \notin {"available", "pending", "stranded"}
               PROVE  completed[r] + dead[r] > 0
    BY DEF AcceptedIsQueued
  <2>1. r \in Jobs /\ stream[r] = "removed"
    BY GatewayAssumption DEF TypeOK, Messages, Acknowledged
  <2>2. /\ completed[r] \in Nat /\ dead[r] \in Nat
        /\ completed[r] > 0 \/ dead[r] > 0
    BY <2>1 DEF TypeOK, NoLoss
  <2>3. QED
    BY <2>2
<1>2. QED
  BY <1>1, AcknowledgedAlways, GatewayImplements, TypeCorrect, JobsAreNotLost, PTL

=============================================================================
