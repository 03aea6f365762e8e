------------------------------ MODULE Gateway ------------------------------
(***************************************************************************)
(* The gateway (api/main.go) and clients that send a job again when they   *)
(* are told that it was not queued, on top of JobDelivery.                 *)
(*                                                                         *)
(* A request is one POST of a client's job; what it publishes is a message *)
(* of its own, with the same job id inside: nothing in the message lets    *)
(* JetStream recognise it (no Nats-Msg-Id).  Publish waits for the         *)
(* server's acknowledgement; the message is on its way all the same when   *)
(* the wait is over, in the client library's buffer while the connection   *)
(* is down.                                                                *)
(***************************************************************************)
EXTENDS DeliveryProperties

CONSTANTS
  Clients,     \* each has one job to submit
  MaxSends,    \* bound: how often a client tries
  LinkFaults   \* which faults of the gateway's side may happen

LinkFaultKinds ==
  { "disconnect",    \* the connection to NATS is lost for a while
    "noStream",      \* there is no stream for the subject
    "slowAck",       \* the acknowledgement takes longer than Publish waits
    "badRequest",    \* a request is malformed, too large or without a prompt
    "gatewayCrash" } \* the gateway stops, at any point

\* The messages: the n-th request of client c.
Requests == Clients \X (1 .. MaxSends)

ASSUME GatewayAssumption ==
  /\ Jobs = Requests /\ MaxSends \in Nat \ {0}
  /\ LinkFaults \subseteq LinkFaultKinds

VARIABLES
  answer,    \* request -> its answer, see Answers
  wire,      \* request -> where its message is
  connected  \* nc.IsConnected() of the gateway

link   == <<answer, wire, connected>>
gwVars == <<vars, link>>

Answers == {"unsent", "waiting", "202", "400", "503", "reset"}

\* The client was told that the job is not queued, or nothing.
Failed(r) == answer[r] \in {"503", "reset"}

GatewayInit ==
  /\ Init
  /\ answer = [r \in Requests |-> "unsent"]
  /\ wire = [r \in Requests |-> "none"]
  /\ connected \in BOOLEAN

-----------------------------------------------------------------------------

Answer(r, a) == answer' = [answer EXCEPT ![r] = a]

\* A client sends its job, and again after a failure.
MaySend(r) ==
  /\ answer[r] = "unsent"
  /\ r[2] > 1 => Failed(<<r[1], r[2] - 1>>)

\* handleCreateJob up to Publish.
Publish(r) ==
  /\ MaySend(r)
  /\ Answer(r, "waiting")
  /\ wire' = [wire EXCEPT ![r] = IF connected THEN "sent" ELSE "buffered"]
  /\ UNCHANGED <<vars, connected>>

\* Its early returns.
Refuse(r) ==
  /\ "badRequest" \in LinkFaults /\ MaySend(r)
  /\ Answer(r, "400")
  /\ UNCHANGED <<vars, wire, connected>>

\* The server stores the message, whether or not anybody waits for it.
Store(r) ==
  /\ wire[r] = "sent"
  /\ Submit(r)
  /\ wire' = [wire EXCEPT ![r] = "stored"]
  /\ UNCHANGED <<answer, connected>>

\* Wrong: a plain publish, which waits for nothing (AcceptedIsQueued).
AcceptUnacknowledged(r) ==
  /\ answer[r] = "waiting"
  /\ Answer(r, "202")
  /\ UNCHANGED <<vars, wire, connected>>

\* The acknowledgement arrives in time: 202.
Accept(r) ==
  /\ answer[r] = "waiting" /\ wire[r] = "stored"
  /\ Answer(r, "202")
  /\ UNCHANGED <<vars, wire, connected>>

\* Publish fails: at once when nobody listens on the subject, else when it has
\* waited long enough.
QueueUnavailable(r) ==
  /\ answer[r] = "waiting"
  /\ Answer(r, "503")
  /\ \/ /\ "noStream" \in LinkFaults /\ wire[r] = "sent"
        /\ wire' = [wire EXCEPT ![r] = "none"]
     \/ /\ "slowAck" \in LinkFaults \/ wire[r] # "sent" \/ ~connected
        /\ UNCHANGED wire
  /\ UNCHANGED <<vars, connected>>

\* The connection breaks; what is under way arrives or does not.
Disconnect ==
  /\ "disconnect" \in LinkFaults /\ connected
  /\ connected' = FALSE
  /\ \E lost \in SUBSET {r \in Requests : wire[r] = "sent"} :
       wire' = [r \in Requests |-> IF r \in lost THEN "none" ELSE wire[r]]
  /\ UNCHANGED <<vars, answer>>

\* It is made again, and what was written meanwhile is sent.
Reconnect ==
  /\ ~connected
  /\ connected' = TRUE
  /\ wire' = [r \in Requests |-> IF wire[r] = "buffered" THEN "sent" ELSE wire[r]]
  /\ UNCHANGED <<vars, answer>>

\* The process ends: requests are not answered, the buffer is lost.
GatewayCrash ==
  /\ "gatewayCrash" \in LinkFaults
  /\ answer' = [r \in Requests |-> IF answer[r] = "waiting" THEN "reset" ELSE answer[r]]
  /\ wire' = [r \in Requests |-> IF wire[r] = "buffered" THEN "none" ELSE wire[r]]
  /\ connected' \in BOOLEAN
  /\ UNCHANGED vars

\* The rest of the system: everything but the arrival of jobs.
Deliver ==
  \/ \E j \in Jobs : AckWaitExpires(j) \/ DeliveryLost(j)
  \/ \E a \in Agents : Run(a) \/ Loop(a) \/ Stop(a) \/ Crash(a)
  \/ \E a \in Agents, j \in Jobs : Fetch(a, j)
  \/ \E d \in Deliveries : Handle(d)

GatewayNext ==
  \/ \E r \in Requests : Publish(r) \/ Refuse(r) \/ Store(r) \/ Accept(r) \/ QueueUnavailable(r)
  \/ Disconnect \/ Reconnect \/ GatewayCrash
  \/ Deliver /\ UNCHANGED link

GatewaySpec == GatewayInit /\ [][GatewayNext]_gwVars

-----------------------------------------------------------------------------

\* "return HTTP 202 Accepted" (README.md): an accepted job is in the queue, or
\* it came to an outcome there.
AcceptedIsQueued ==
  \A r \in Requests : answer[r] = "202" =>
    stream[r] \in {"available", "pending", "stranded"} \/ completed[r] + dead[r] > 0

=============================================================================
