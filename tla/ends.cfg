SPECIFICATION FairSpec
CONSTANTS
  Jobs = {j1}
  Malformed = {}
  Agents = {a1, a2}
  MaxInFlight = 1
  MaxAttempts = 2
  MaxDeliver = 3
  Faults = {"ackLost", "dlqFails", "dlqUncertain", "deliveryLost", "fetchFails", "stop", "drainTimeout", "crash"}
INVARIANTS SoleHandler
PROPERTIES EveryJobEnds
