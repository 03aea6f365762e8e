SPECIFICATION Spec
CONSTANTS
  NodeIds = {1, 2, 3}
  MaxNodes = 2
  MinNodes = 1
  Procs = {p1, p2}
  ScaleUpThreshold = 1
  ScaleUpDuration = 1
  CooldownDuration = 1
  ScaleDownIdleDuration = 1
  ScaleToZeroIdleDuration = 2
  MaxWork = 2
  Faults = {"createFails", "listFails", "createLost", "crash", "outage", "noAddress"}
SYMMETRY Slots
INVARIANTS DestroyingOwned
PROPERTIES ScaleDownFloor DeletedOnceGivenUp
