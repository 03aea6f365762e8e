SPECIFICATION FairSpec
CONSTANTS
  NodeIds = {1, 2}
  MaxNodes = 1
  MinNodes = 0
  ScaleUpThreshold = 0
  ScaleUpDuration = 1
  CooldownDuration = 1
  ScaleDownIdleDuration = 1
  ScaleToZeroIdleDuration = 1
  Procs = {p1}
  Jobs = {j1, j2}
  Malformed = {j2}
  MaxInFlight = 2
  MaxAttempts = 1
  MaxDeliver = 2
  CloudFaults = {}
  JobFaults = {}
INVARIANTS OneSpareDelivery
PROPERTIES EverySettled ScalesToZero
