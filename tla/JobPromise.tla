----------------------------- MODULE JobPromise -----------------------------
(***************************************************************************)
(* What a client of the job queue is promised about an accepted job, with  *)
(* no agent, delivery or acknowledgement in sight: a job is settled, and   *)
(* leaves the queue, only after some worker reported that it was completed *)
(* or buried in the dead-letter queue; it may also be stranded, kept by    *)
(* the stream but given to no worker any more.                             *)
(***************************************************************************)
EXTENDS Integers

CONSTANT Jobs

VARIABLES
  status,   \* job -> where the queue has it
  reported  \* job -> what workers reported about it

Outcomes == {"completed", "buried"}

Init ==
  /\ status = [j \in Jobs |-> "unknown"]
  /\ reported = [j \in Jobs |-> {}]

Accept(j) ==
  /\ status[j] = "unknown"
  /\ status' = [status EXCEPT ![j] = "queued"]
  /\ UNCHANGED reported

Report(j) ==
  /\ status[j] # "unknown"
  /\ \E o \in Outcomes : reported' = [reported EXCEPT ![j] = @ \cup {o}]
  /\ UNCHANGED status

Settle(j) ==
  /\ status[j] \in {"queued", "stranded"} /\ reported[j] # {}
  /\ status' = [status EXCEPT ![j] = "settled"]
  /\ UNCHANGED reported

Strand(j) ==
  /\ status[j] = "queued"
  /\ status' = [status EXCEPT ![j] = "stranded"]
  /\ UNCHANGED reported

Next == \E j \in Jobs : Accept(j) \/ Report(j) \/ Settle(j) \/ Strand(j)

Spec == Init /\ [][Next]_<<status, reported>>

=============================================================================
