SPECIFICATION HSpec
CONSTANTS
  NodeIds = {1, 2, 3}
  MaxNodes = 2
  MinNodes = 0
  Procs = {p1, p2}
  ScaleUpThreshold = 1
  ScaleUpDuration = 2
  CooldownDuration = 2
  ScaleDownIdleDuration = 1
  ScaleToZeroIdleDuration = 2
  MaxWork = 2
  Faults = {"createFails", "listFails", "createLost", "crash", "destroyFails", "noAddress"}
SYMMETRY Slots
INVARIANTS InstanceCap OneScaleOperation CooldownRespected ScaleOutSustained ScaleInIdle
PROPERTIES RemovedAfterDestruction
