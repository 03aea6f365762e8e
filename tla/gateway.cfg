SPECIFICATION GatewaySpec
CONSTANTS
  Clients = {c1}
  MaxSends = 2
  Jobs <- MCJobs
  Malformed = {}
  Agents = {a1, a2}
  MaxInFlight = 2
  MaxAttempts = 1
  MaxDeliver = 2
  Faults = {"stop", "dlqFails", "deliveryLost"}
  LinkFaults = {"disconnect", "noStream", "slowAck", "badRequest", "gatewayCrash"}
SYMMETRY Alike
INVARIANTS AcceptedIsQueued OneOutcome
