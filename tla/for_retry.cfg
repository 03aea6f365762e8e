SPECIFICATION Spec
CONSTANTS
  Jobs = {j1, j2}
  Malformed = {}
  Agents = {a1, a2}
  MaxInFlight = 1
  MaxAttempts = 2
  MaxDeliver = 2
  Faults = {"dlqFails"}
SYMMETRY Nodes
PROPERTIES ReleasedForRetry
