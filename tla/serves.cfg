SPECIFICATION FairSpec
CONSTANTS
  NodeIds = {1, 2}
  MaxNodes = 2
  MinNodes = 0
  Procs = {p1, p2}
  ScaleUpThreshold = 0
  ScaleUpDuration = 1
  CooldownDuration = 1
  ScaleDownIdleDuration = 1
  ScaleToZeroIdleDuration = 2
  MaxWork = 1
  Faults = {"listFails", "createLost", "noAddress"}
PROPERTIES ColdStartServed NeverWedged NoInstanceLeaks
