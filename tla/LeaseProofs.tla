---------------------------- MODULE LeaseProofs ----------------------------
(***************************************************************************)
(* What TLC checks of Bootstrap and Lease for two orchestrators and two    *)
(* agents, proved for any number of processes, any configuration, any      *)
(* heartbeat intervals and whatever an earlier deployment left behind.     *)
(***************************************************************************)
EXTENDS Lease, TLAPS

USE DEF Processes, Resources, Missing, Down, Steps, Ready, AckWait, Holding, NoLease, lease

\* The interval chosen is a number, and so is the period of its ticker.
LEMMA Intervals ==
  ASSUME NEW h \in Int, NEW w \in Nat
  PROVE  Adjusted(h, w) \in Int /\ Period(h) \in Nat \ {0}
BY BootstrapAssumption DEF Adjusted, Period, AtLeastASecond

\* The system starts with every variable in its type.
LEMMA TypeInit == Init => TypeOK
BY BootstrapAssumption DEF Init, BootInit, TypeOK

\* A process goes on to another resource, or to what follows the last one.
LEMMA EnsuredTypes ==
  ASSUME TypeOK, NEW p \in Processes, Ensured(p)
  PROVE  /\ step' = [step EXCEPT ![p] = step'[p]] /\ step'[p] \in {"bind", "info", "ready"}
         /\ on' \in [Processes -> Resources]
         /\ p \in Agents => step'[p] = "bind"
BY BootstrapAssumption DEF TypeOK, Ensured, Goto

\* What is asked for, and what an update or an addition leaves, exists.
LEMMA Configured ==
  ASSUME NEW p \in Processes, NEW r \in Resources
  PROVE  Config[p][r] \in Nat \ {0}
BY BootstrapAssumption

\* A step of a process that starts up moves that process alone, makes no
\* resource disappear and does not leave an agent bound to nothing.
LEMMA BootMoves ==
  ASSUME TypeOK, NEW p \in Processes, Boot(p)
  PROVE  /\ step[p] # "ready" /\ step'[p] \in Steps
         /\ step' = [step EXCEPT ![p] = step'[p]]
         /\ on' \in [Processes -> Resources]
         /\ have' \in [Resources -> Nat]
         /\ \A r \in Resources : have[r] # Missing => have'[r] # Missing
         /\ interval' \in [Agents -> Int]
         /\ p \in Agents /\ step'[p] \in {"interval", "ready"} => AckWait # Missing
<1> USE DEF TypeOK
<1>1. CASE Start(p)
  BY <1>1, BootstrapAssumption DEF Start, Goto
<1>2. CASE Info(p)
  BY <1>2, EnsuredTypes DEF Info, Goto
<1>3. CASE Update(p)
  BY <1>3, EnsuredTypes, Configured DEF Update, Exit, Goto
<1>4. CASE Add(p)
  BY <1>4, EnsuredTypes, Configured DEF Add, Goto
<1>5. CASE Recheck(p)
  BY <1>5, EnsuredTypes DEF Recheck, Exit, Goto
<1>6. CASE p \in Agents /\ Bind(p)
  BY <1>6 DEF Bind, Goto
<1>7. CASE p \in Agents /\ ChooseInterval(p)
  <2>1. interval[p] \in Int /\ AckWait \in Nat
    BY <1>7
  <2>2. PICK i \in Int : interval' = [interval EXCEPT ![p] = i]
    BY <1>7, <2>1, Intervals DEF ChooseInterval
  <2>3. /\ step[p] = "interval" /\ step' = [step EXCEPT ![p] = "ready"]
        /\ UNCHANGED <<have, on>>
    BY <1>7 DEF ChooseInterval, Goto
  <2>4. QED
    BY <1>7, <2>2, <2>3
<1>8. QED
  BY <1>1, <1>2, <1>3, <1>4, <1>5, <1>6, <1>7 DEF Boot

\* Every step keeps every variable in its type.
LEMMA TypeStep == TypeOK /\ [Next]_vars => TypeOK'
<1> SUFFICES ASSUME TypeOK, [Next]_vars PROVE TypeOK'
  OBVIOUS
<1>1. ASSUME NEW p \in Processes, Boot(p), UNCHANGED lease PROVE TypeOK'
  BY <1>1, BootMoves DEF TypeOK
<1>2. ASSUME NEW p \in Processes, Stop(p), Released(p) PROVE TypeOK'
  BY <1>2 DEF TypeOK, Stop, Released, Goto
<1>3. ASSUME NEW a \in Agents, Deliver(a) PROVE TypeOK'
  <2>1. Period(interval[a]) \in Nat
    BY Intervals DEF TypeOK
  <2>2. QED
    BY <1>3, <2>1 DEF TypeOK, Deliver, bootVars
<1>4. ASSUME NEW a \in Agents, Beat(a) PROVE TypeOK'
  <2>1. Period(interval[a]) \in Nat
    BY Intervals DEF TypeOK
  <2>2. QED
    BY <1>4, <2>1 DEF TypeOK, Beat, bootVars
<1>5. ASSUME NEW a \in Agents, Finish(a) PROVE TypeOK'
  BY <1>5 DEF TypeOK, Finish, Released, bootVars
<1>6. CASE Tick
  BY <1>6 DEF TypeOK, Tick, bootVars
<1>7. CASE UNCHANGED vars
  BY <1>7 DEF TypeOK, vars, bootVars
<1>8. QED
  BY <1>1, <1>2, <1>3, <1>4, <1>5, <1>6, <1>7 DEF Next

\* Every variable keeps its type, no agent holds a message before it is bound,
\* and none is bound to a consumer that does not exist.
THEOREM TypeCorrect == Spec => []TypeOK
<1>1. QED
  BY TypeInit, TypeStep, PTL DEF Spec

-----------------------------------------------------------------------------
(* The expected configuration *)

\* All processes are deployed with the same configuration.
Agree == \A p, q \in Processes : Config[p] = Config[q]

\* The resources an orchestrator has seen to since it was started.
Done(o) == IF Ready(o) THEN Resources
           ELSE IF on[o] = "consumer" THEN {"jobs", "dlq"}
           ELSE IF on[o] = "dlq" THEN {"jobs"} ELSE {}

\* What an orchestrator has seen to is as configured, and what a process is
\* about to create, or could not create, is missing or was made by somebody
\* else with the same configuration.
Ensuring ==
  /\ \A o \in Orchestrators :
       step[o] \notin Down => \A r \in Done(o) : have[r] = Config[o][r]
  /\ \A p \in Processes :
       step[p] \in {"add", "recheck"} => have[on[p]] \in {Missing, Config[p][on[p]]}

\* Nothing has been seen to at first.
LEMMA EnsuringInit == Init => Ensuring
BY DEF Init, BootInit, Ensuring

\* A process changes resources only to what it is configured with.
LEMMA OwnConfigOnly ==
  ASSUME TypeOK, NEW p \in Processes, Boot(p), NEW r \in Resources
  PROVE  have'[r] = have[r] \/ have'[r] = Config[p][r]
BY DEF TypeOK, Boot, Start, Info, Update, Add, Recheck, Bind, ChooseInterval

\* So nobody undoes what another process has seen to.
LEMMA OthersEnsuring ==
  ASSUME TypeOK, Ensuring, Agree, NEW p \in Processes, Boot(p),
         NEW q \in Processes \ {p}
  PROVE  /\ q \in Orchestrators /\ step'[q] \notin Down =>
              \A r \in Done(q)' : have'[r] = Config[q][r]
         /\ step'[q] \in {"add", "recheck"} =>
              have'[on'[q]] \in {Missing, Config[q][on'[q]]}
<1>1. step'[q] = step[q] /\ on'[q] = on[q]
  <2>1. step'[q] = step[q]
    BY BootMoves DEF TypeOK
  <2>2. on'[q] = on[q]
    BY DEF TypeOK, Boot, Start, Info, Update, Add, Recheck, Bind, ChooseInterval, Ensured, Exit
  <2>3. QED
    BY <2>1, <2>2
<1>2. Config[p] = Config[q]
  BY DEF Agree
<1>3. \A r \in Resources : have'[r] = have[r] \/ have'[r] = Config[q][r]
  BY <1>2, OwnConfigOnly
<1>4. Done(q)' = Done(q) /\ Done(q) \subseteq Resources /\ on[q] \in Resources
  BY <1>1 DEF Done, TypeOK
<1>5. QED
  BY <1>1, <1>3, <1>4 DEF Ensuring

\* A resource that is as configured is added to those seen to.
LEMMA OneMoreDone ==
  ASSUME TypeOK, NEW o \in Orchestrators, Ensured(o), step[o] # "ready",
         \A r \in Done(o) \cup {on[o]} : have'[r] = Config[o][r]
  PROVE  \A r \in Done(o)' : have'[r] = Config[o][r]
<1> USE BootstrapAssumption DEF TypeOK, Ensured, Goto, Done
<1>1. CASE on[o] = "jobs"
  BY <1>1
<1>2. CASE on[o] = "dlq"
  BY <1>2
<1>3. CASE on[o] = "consumer"
  BY <1>3
<1>4. QED
  BY <1>1, <1>2, <1>3

\* Neither does a process undo what it has seen to itself, and it goes on only
\* with a resource that is as configured.
LEMMA OwnEnsuring ==
  ASSUME TypeOK, Ensuring, "infoFails" \notin Faults, NEW p \in Processes, Boot(p)
  PROVE  /\ p \in Orchestrators /\ step'[p] \notin Down =>
              \A r \in Done(p)' : have'[r] = Config[p][r]
         /\ step'[p] \in {"add", "recheck"} =>
              have'[on'[p]] \in {Missing, Config[p][on'[p]]}
<1>1. on[p] \in Resources /\ Done(p) \subseteq Resources
  BY DEF TypeOK, Done
<1>2. ASSUME Ensured(p), step[p] \in {"info", "update", "add", "recheck"},
             p \in Orchestrators => have'[on[p]] = Config[p][on[p]]
      PROVE  /\ p \in Orchestrators => \A r \in Done(p)' : have'[r] = Config[p][r]
             /\ step'[p] \notin {"add", "recheck"}
  <2>1. step'[p] \notin {"add", "recheck"}
    BY <1>2, EnsuredTypes
  <2>2. p \in Orchestrators => \A r \in Done(p) : have'[r] = Config[p][r]
    BY <1>1, <1>2, OwnConfigOnly DEF Ensuring
  <2>3. QED
    BY <1>2, <2>1, <2>2, OneMoreDone
<1>3. ASSUME on'[p] = on[p], step[p] \in {"info", "update", "add", "recheck"},
             step'[p] \in {"update", "add", "recheck"}
      PROVE  p \in Orchestrators => \A r \in Done(p)' : have'[r] = Config[p][r]
  <2>1. Done(p)' = Done(p)
    BY <1>3 DEF Done
  <2>2. QED
    BY <1>1, <1>3, <2>1, OwnConfigOnly DEF Ensuring
<1>4. CASE Start(p)
  BY <1>4, BootstrapAssumption DEF Start, Goto, TypeOK, Done
<1>5. CASE Info(p)
  <2>1. UNCHANGED have /\ step[p] = "info"
    BY <1>5 DEF Info
  <2>2. CASE have[on[p]] = Missing /\ Goto(p, "add") /\ UNCHANGED on
    BY <1>3, <2>1, <2>2 DEF Goto, TypeOK
  <2>3. CASE Goto(p, "update") /\ UNCHANGED on
    BY <1>3, <2>1, <2>3 DEF Goto, TypeOK
  <2>4. CASE (p \in Agents \/ have[on[p]] = Config[p][on[p]]) /\ Ensured(p)
    BY <1>2, <2>1, <2>4, BootstrapAssumption
  <2>5. QED
    BY <1>5, <2>2, <2>3, <2>4 DEF Info, InfoFails
<1>6. CASE Update(p)
  <2>1. CASE step'[p] \in Down
    BY <2>1
  <2>2. CASE Ensured(p) /\ have' = [have EXCEPT ![on[p]] = Config[p][on[p]]]
    BY <1>1, <1>2, <1>6, <2>2 DEF Update, TypeOK
  <2>3. QED
    BY <1>6, <2>1, <2>2 DEF Update, Exit, Goto, TypeOK
<1>7. CASE Add(p)
  <2>1. step[p] = "add" /\ have[on[p]] \in {Missing, Config[p][on[p]]}
    BY <1>7 DEF Add, Ensuring
  <2>2. CASE Ensured(p) /\ have' = [have EXCEPT ![on[p]] = Config[p][on[p]]]
    BY <1>1, <1>2, <2>1, <2>2 DEF TypeOK
  <2>3. CASE Goto(p, "recheck") /\ UNCHANGED on
    <3>1. have'[on[p]] \in {Missing, Config[p][on[p]]}
      BY <1>1, <2>1, OwnConfigOnly
    <3>2. QED
      BY <1>3, <2>1, <2>3, <3>1 DEF Goto, TypeOK
  <2>4. QED
    BY <1>7, <2>2, <2>3 DEF Add
<1>8. CASE Recheck(p)
  <2>1. step[p] = "recheck" /\ have[on[p]] \in {Missing, Config[p][on[p]]} /\ UNCHANGED have
    BY <1>8 DEF Recheck, Ensuring
  <2>2. CASE have[on[p]] # Missing /\ Ensured(p)
    BY <1>2, <2>1, <2>2
  <2>3. CASE Exit(p)
    BY <2>1, <2>3 DEF Exit, Goto, TypeOK
  <2>4. QED
    BY <1>8, <2>2, <2>3 DEF Recheck
<1>9. CASE p \in Agents /\ (Bind(p) \/ ChooseInterval(p))
  BY <1>9, BootstrapAssumption DEF Bind, ChooseInterval, Goto, TypeOK
<1>10. QED
  BY <1>4, <1>5, <1>6, <1>7, <1>8, <1>9 DEF Boot

\* Every step keeps what has been seen to.
LEMMA EnsuringStep ==
  ASSUME Agree, "infoFails" \notin Faults
  PROVE  TypeOK /\ Ensuring /\ [Next]_vars => Ensuring'
<1> SUFFICES ASSUME TypeOK, Ensuring, [Next]_vars PROVE Ensuring'
  OBVIOUS
<1>1. ASSUME NEW p \in Processes, Boot(p) PROVE Ensuring'
  BY <1>1, OthersEnsuring, OwnEnsuring DEF Ensuring
<1>2. ASSUME NEW p \in Processes, Stop(p) PROVE Ensuring'
  BY <1>2 DEF Ensuring, Done, Stop, Goto, TypeOK
<1>3. CASE UNCHANGED bootVars
  BY <1>3 DEF Ensuring, Done, bootVars
<1>4. QED
  BY <1>1, <1>2, <1>3 DEF Next, Deliver, Beat, Finish, Tick, vars

\* From the moment an orchestrator is up the streams and the consumer are as it
\* is configured, whoever creates them meanwhile, as long as all processes are
\* configured alike and a query that fails is not taken for a missing resource.
THEOREM ConfigurationExpected ==
  ASSUME Agree, "infoFails" \notin Faults
  PROVE  Spec => []ExpectedConfig
<1>1. TypeOK /\ Ensuring => ExpectedConfig
  BY BootstrapAssumption DEF TypeOK, Ensuring, ExpectedConfig, Done
<1>2. QED
  BY <1>1, TypeInit, TypeStep, EnsuringInit, EnsuringStep, PTL DEF Spec

-----------------------------------------------------------------------------
(* Leases *)

\* AckWait is more than a second, now and before, and a deployment does not
\* make it shorter than it was.
LongLeases ==
  /\ \A p \in Processes : Second < Config[p]["consumer"]
  /\ \A w \in Leftover["consumer"] :
       Second < w /\ \A p \in Processes : w <= Config[p]["consumer"]

\* The heartbeats of an agent that is bound are more frequent than AckWait, and
\* since the last renewal of a lease not more than one period has passed.
Leased ==
  /\ AckWait # Missing =>
       Second < AckWait /\ \A p \in Processes : AckWait <= Config[p]["consumer"]
  /\ \A a \in Agents : interval[a] > 0
  /\ \A a \in Agents : Ready(a) => Period(interval[a]) < AckWait
  /\ \A a \in Agents : Holding(a) => age[a] + beat[a] <= Period(interval[a])

\* The interval chosen is shorter than AckWait, also after rounding: AckWait is
\* more than a second.
LEMMA ShorterThanAckWait ==
  ASSUME NEW h \in Int, h > 0, NEW w \in Nat, Second < w
  PROVE  Adjusted(h, w) > 0 /\ Period(Adjusted(h, w)) < w
<1>1. Second \in Nat \ {0}
  BY BootstrapAssumption
<1>2. w \div 3 \in Nat /\ w \div 3 < w
  BY <1>1
<1>3. QED
  BY <1>1, <1>2 DEF Adjusted, Period, AtLeastASecond

\* No agent is bound at first, and what is left over is a long lease.
LEMMA LeasedInit ==
  ASSUME LongLeases, \A a \in Agents : Heartbeat[a] > 0
  PROVE  Init => Leased
<1> SUFFICES ASSUME Init PROVE Leased
  OBVIOUS
<1>1. AckWait = Missing \/ AckWait \in Leftover["consumer"]
  BY DEF Init, BootInit
<1>2. \A a \in Agents : ~Ready(a) /\ ~Holding(a) /\ interval[a] = Heartbeat[a]
  BY DEF Init, BootInit
<1>3. AckWait # Missing =>
        Second < AckWait /\ \A p \in Processes : AckWait <= Config[p]["consumer"]
  BY <1>1 DEF LongLeases
<1>4. QED
  BY <1>2, <1>3 DEF Leased

\* Starting processes make AckWait longer, if they change it, and choose an
\* interval only for an agent that is not bound yet.
LEMMA BootLeased ==
  ASSUME TypeOK, Leased, Agree, LongLeases, "infoFails" \notin Faults,
         \A a \in Agents : Heartbeat[a] > 0,
         NEW p \in Processes, Boot(p), UNCHANGED lease
  PROVE  Leased'
<1> DEFINE wait == AckWait
<1>1. /\ wait \in Nat /\ wait' \in Nat /\ wait <= wait'
      /\ wait' # Missing => Second < wait' /\ \A q \in Processes : wait' <= Config[q]["consumer"]
  <2>1. wait \in Nat /\ wait' \in Nat
    BY BootMoves DEF TypeOK
  <2>2. wait' = wait \/ wait' = Config[p]["consumer"]
    BY OwnConfigOnly
  <2>3. \A q \in Processes : Config[q]["consumer"] = Config[p]["consumer"]
                               /\ Config[q]["consumer"] \in Nat
    BY Configured DEF Agree
  <2>4. Second < Config[p]["consumer"]
    BY DEF LongLeases
  <2>5. wait = Missing \/ (Second < wait /\ \A q \in Processes : wait <= Config[q]["consumer"])
    BY DEF Leased
  <2>6. QED
    BY <2>1, <2>2, <2>3, <2>4, <2>5
<1>2. ASSUME NEW a \in Agents
      PROVE  /\ interval'[a] > 0
             /\ Ready(a)' => Period(interval'[a]) < wait'
             /\ Holding(a)' => interval'[a] = interval[a]
  <2>1. CASE UNCHANGED interval /\ ~(a = p /\ step'[a] = "ready")
    <3>1. Ready(a)' => Ready(a)
      BY <2>1, BootMoves DEF TypeOK
    <3>2. Period(interval[a]) \in Nat
      BY Intervals DEF TypeOK
    <3>3. QED
      BY <1>1, <2>1, <3>1, <3>2 DEF Leased
  <2>2. CASE Start(p)
    <3>1. /\ step[p] # "ready" /\ step'[p] = "info"
          /\ interval'[a] = IF a = p THEN Heartbeat[a] ELSE interval[a]
      BY <2>2 DEF Start, Goto, TypeOK
    <3>2. CASE a = p
      BY <3>1, <3>2 DEF Leased, TypeOK
    <3>3. CASE a # p
      <4>1. Ready(a)' => Ready(a)
        BY <3>3, BootMoves DEF TypeOK
      <4>2. Period(interval[a]) \in Nat
        BY Intervals DEF TypeOK
      <4>3. QED
        BY <1>1, <3>1, <3>3, <4>1, <4>2 DEF Leased
    <3>4. QED
      BY <3>2, <3>3
  <2>3. CASE p \in Agents /\ ChooseInterval(p)
    <3>1. /\ step[p] = "interval" /\ wait' = wait /\ wait # Missing /\ interval[p] \in Int
          /\ interval[p] > 0 /\ Second < wait
      BY <2>3 DEF ChooseInterval, TypeOK, Leased
    <3>2. interval' = [interval EXCEPT ![p] = Adjusted(interval[p], wait)]
      BY <2>3 DEF ChooseInterval, InfoFails
    <3>3. CASE a = p
      <4>1. interval'[a] = Adjusted(interval[p], wait)
        BY <3>2, <3>3 DEF TypeOK
      <4>2. Adjusted(interval[p], wait) > 0 /\ Period(Adjusted(interval[p], wait)) < wait
        BY <1>1, <3>1, ShorterThanAckWait
      <4>3. QED
        BY <3>1, <3>3, <4>1, <4>2 DEF TypeOK
    <3>4. CASE a # p
      <4>1. interval'[a] = interval[a] /\ (Ready(a)' => Ready(a))
        BY <3>2, <3>4, BootMoves DEF TypeOK
      <4>2. QED
        BY <3>1, <4>1 DEF Leased
    <3>5. QED
      BY <3>3, <3>4
  <2>4. QED
    <3>1. CASE Info(p) \/ Update(p) \/ Add(p) \/ Recheck(p) \/ (p \in Agents /\ Bind(p))
      <4>1. UNCHANGED interval
        BY <3>1 DEF Info, Update, Add, Recheck, Bind
      <4>2. p \in Agents => step'[p] # "ready"
        BY <3>1, EnsuredTypes DEF Info, Update, Add, Recheck, Bind, Exit, Goto, TypeOK
      <4>3. QED
        BY <2>1, <4>1, <4>2
    <3>2. QED
      BY <2>2, <2>3, <3>1 DEF Boot
<1>3. \A a \in Agents : Holding(a)' => age'[a] + beat'[a] <= Period(interval'[a])
  BY <1>2 DEF Leased
<1>4. QED
  BY <1>1, <1>2, <1>3 DEF Leased

\* A lease is renewed before it runs out.
LEMMA LeasedStep ==
  ASSUME Agree, LongLeases, {"infoFails", "beatLost"} \cap Faults = {},
         \A a \in Agents : Heartbeat[a] > 0
  PROVE  TypeOK /\ Leased /\ [Next]_vars => Leased'
<1> SUFFICES ASSUME TypeOK, Leased, [Next]_vars PROVE Leased'
  OBVIOUS
<1>1. ASSUME NEW p \in Processes, Boot(p), UNCHANGED lease PROVE Leased'
  BY <1>1, BootLeased
<1>2. ASSUME NEW p \in Processes, Stop(p), Released(p) PROVE Leased'
  BY <1>2 DEF Leased, Stop, Released, Goto, TypeOK
<1>3. \A a \in Agents : Period(interval[a]) \in Nat
  BY Intervals DEF TypeOK
<1>4. ASSUME NEW a \in Agents, Deliver(a) \/ Beat(a) \/ Finish(a) PROVE Leased'
  <2>1. UNCHANGED bootVars
    BY <1>4 DEF Deliver, Beat, Finish
  <2>2. ASSUME NEW b \in Agents, age'[b] # NoLease
        PROVE  \/ age'[b] = age[b] /\ beat'[b] = beat[b]
               \/ age'[b] = 0 /\ beat'[b] = Period(interval[b])
               \/ age'[b] = age[b] /\ "beatLost" \in Faults
    <3>1. CASE Deliver(a)
      BY <2>2, <3>1 DEF Deliver, TypeOK
    <3>2. CASE Beat(a)
      BY <2>2, <3>2 DEF Beat, TypeOK
    <3>3. CASE Finish(a)
      BY <2>2, <3>3 DEF Finish, Released
    <3>4. QED
      BY <1>4, <3>1, <3>2, <3>3
  <2>3. \A b \in Agents : age'[b] # NoLease => age'[b] + beat'[b] <= Period(interval[b])
    BY <1>3, <2>2 DEF Leased
  <2>4. QED
    BY <2>1, <2>3 DEF Leased, bootVars
<1>5. CASE Tick
  BY <1>5 DEF Leased, Tick, bootVars, TypeOK
<1>6. CASE UNCHANGED vars
  BY <1>6 DEF Leased, vars, bootVars
<1>7. QED
  BY <1>1, <1>2, <1>4, <1>5, <1>6 DEF Next

\* A lease does not run out under a handler that lives, if AckWait is more than
\* a second and never made shorter, and no heartbeat is lost.
THEOREM OwnershipIsRetained ==
  ASSUME Agree, LongLeases, {"infoFails", "beatLost"} \cap Faults = {},
         \A a \in Agents : Heartbeat[a] > 0
  PROVE  Spec => []OwnershipRetained
<1>1. ASSUME TypeOK, Leased PROVE OwnershipRetained
  <2>1. \A a \in Agents : Period(interval[a]) \in Nat
    BY <1>1, Intervals DEF TypeOK
  <2>2. QED
    BY <1>1, <2>1 DEF TypeOK, Leased, OwnershipRetained
<1>2. QED
  BY <1>1, TypeInit, TypeStep, LeasedInit, LeasedStep, PTL DEF Spec

=============================================================================
