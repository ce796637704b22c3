\* Two heartbeats at once against a sweep
CONSTANTS
  Handlers = {h1, h2}
  Sweepers = {w}
  Timeout = 1
  MaxTime = 2
SPECIFICATION FairSpec
INVARIANTS
  NoFalseAlarm
PROPERTIES
  SilenceDetected
  MaintenanceEnds
  EventuallyOnline
