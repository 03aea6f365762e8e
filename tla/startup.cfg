SPECIFICATION FairSpec
CONSTANTS
  Orchestrators = {o1, o2}
  Agents = {a1, a2}
  Config <- MCConfig
  Heartbeat <- MCHeartbeat
  Second = 1
  Leftover <- MCLeftover
  Faults = {"callFails", "answerLost", "stop", "beatLost"}
INVARIANTS TypeOK ExpectedConfig OwnershipRetained
PROPERTIES AgentsServe
