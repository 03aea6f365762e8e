SPECIFICATION Spec
CONSTANTS
  NodeIds = {1, 2}
  MaxNodes = 1
  MinNodes = 0
  Procs = {p1, p2}
  ScaleUpThreshold = 0
  ScaleUpDuration = 1
  CooldownDuration = 1
  ScaleDownIdleDuration = 1
  ScaleToZeroIdleDuration = 2
  MaxWork = 1
  Faults = {"listFails", "crash", "bootTimeout", "destroyFails", "slowCalls", "noAddress"}
SYMMETRY Slots
INVARIANTS TypeOK DrainingOwned
PROPERTIES NodesFollowLifecycle
