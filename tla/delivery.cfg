SPECIFICATION Spec
CONSTANTS
  Jobs = {j1, j2}
  Malformed = {j2}
  Agents = {a1, a2}
  MaxInFlight = 1
  MaxAttempts = 2
  MaxDeliver = 2
  Faults = {"ackLost", "dlqFails", "dlqUncertain", "deliveryLost", "fetchFails", "stop", "drainTimeout", "crash", "lapse"}
SYMMETRY Nodes
INVARIANTS TypeOK NoLoss TokensAccounted ConcurrencyBounded
PROPERTIES KeepsPromise
